---- MODULE Spec2Model ----
(***************************************************************************)
(* Gradient Architect: the editor store (store.ts), the stop list engine,  *)
(* the gradient geometry helpers (utils.ts) and the on-canvas gradient     *)
(* overlay (GradientOverlay.tsx) as one state machine.                     *)
(*                                                                         *)
(* Numbers.  JavaScript numbers are modelled as exact rationals            *)
(* [n |-> numerator, d |-> denominator], always in lowest terms with       *)
(* d > 0, so record equality is numeric equality.  Math.cos, Math.sin and  *)
(* Math.atan2 are defined on the arguments for which their value is        *)
(* rational (multiples of 90 degrees; the eight principal directions), and *)
(* Math.sqrt on rational squares.  Handlers that would need another value  *)
(* are not exercised on that input (see TrigExact, MoveExact, ...).        *)
(***************************************************************************)
EXTENDS Integers, Sequences, FiniteSets, TLC

(* ---------------------------------------------------------------------- *)
(* Bounds of the exploration                                               *)
(* ---------------------------------------------------------------------- *)
MaxApiCalls == 2       \* store calls made from outside the overlay
MaxLoads == 1          \* gradients applied from the toolbar
MaxDowns == 2          \* pointer presses on the overlay
MaxMoves == 2          \* pointer-move events
MaxSteps == 3          \* counted steps when store calls and gestures interleave

(* ---------------------------------------------------------------------- *)
(* Rational arithmetic                                                     *)
(* ---------------------------------------------------------------------- *)
Abs(i) == IF i < 0 THEN -i ELSE i

RECURSIVE Gcd(_, _)
Gcd(a, b) == IF b = 0 THEN a ELSE Gcd(b, a % b)

Q(n, d) ==
  LET g == Gcd(Abs(n), Abs(d))
      s == IF d < 0 THEN -1 ELSE 1
  IN [n |-> (s * n) \div g, d |-> (s * d) \div g]

R(i) == [n |-> i, d |-> 1]

(* sums, products and comparisons cancel common factors first, to keep    *)
(* the intermediate integers small                                         *)
RAdd(a, b) ==
  LET g == Gcd(a.d, b.d)
  IN Q(a.n * (b.d \div g) + b.n * (a.d \div g), (a.d \div g) * b.d)
RNeg(a) == [n |-> -a.n, d |-> a.d]
RSub(a, b) == RAdd(a, RNeg(b))
RMul(a, b) ==
  LET g1 == Gcd(Abs(a.n), b.d)
      g2 == Gcd(Abs(b.n), a.d)
  IN Q((a.n \div g1) * (b.n \div g2), (a.d \div g2) * (b.d \div g1))
RDiv(a, b) ==
  IF b.n < 0 THEN RMul(a, [n |-> -b.d, d |-> -b.n]) ELSE RMul(a, [n |-> b.d, d |-> b.n])
RLt(a, b) ==
  LET g == Gcd(a.d, b.d) IN a.n * (b.d \div g) < b.n * (a.d \div g)
RLe(a, b) ==
  LET g == Gcd(a.d, b.d) IN a.n * (b.d \div g) <= b.n * (a.d \div g)
RMin(a, b) == IF RLt(b, a) THEN b ELSE a
RMax(a, b) == IF RLt(a, b) THEN b ELSE a
RAbs(a) == [n |-> Abs(a.n), d |-> a.d]
RFloor(a) == a.n \div a.d
(* Math.round: the nearest integer, halves rounded up *)
RRound(a) == RFloor(RAdd(a, Q(1, 2)))

(* a (mod m) with the sign of the dividend, as JavaScript's % on numbers *)
JsMod(a, m) ==
  LET q == IF a.n >= 0 THEN RFloor(RDiv(a, m)) ELSE -RFloor(RDiv(RNeg(a), m))
  IN RSub(a, RMul(R(q), m))

RECURSIVE ISqrtIn(_, _, _)
ISqrtIn(i, lo, hi) ==
  IF lo >= hi THEN lo
  ELSE LET mid == (lo + hi + 1) \div 2
       IN IF mid * mid <= i THEN ISqrtIn(i, mid, hi) ELSE ISqrtIn(i, lo, mid - 1)
ISqrt(i) == ISqrtIn(i, 0, IF i < 46340 THEN i ELSE 46340)
IsSquare(i) == ISqrt(i) * ISqrt(i) = i
RIsSquare(a) == a.n >= 0 /\ IsSquare(a.n) /\ IsSquare(a.d)
(* Math.sqrt on a rational square *)
RSqrt(a) == Q(ISqrt(a.n), ISqrt(a.d))

(* ---------------------------------------------------------------------- *)
(* Math.cos / Math.sin / Math.atan2, in degrees, where they are rational   *)
(* ---------------------------------------------------------------------- *)
TrigExact(a) == a.d = 1 /\ a.n % 90 = 0

CosDeg(a) ==
  LET m == a.n % 360
  IN IF m = 0 THEN R(1) ELSE IF m = 180 THEN R(-1) ELSE R(0)

SinDeg(a) ==
  LET m == a.n % 360
  IN IF m = 90 THEN R(1) ELSE IF m = 270 THEN R(-1) ELSE R(0)

Principal(dy, dx) == dx.n = 0 \/ dy.n = 0 \/ RAbs(dx) = RAbs(dy)
Axial(dy, dx) == dx.n = 0 \/ dy.n = 0

(* Math.atan2(dy, dx) * 180 / Math.PI on the eight principal directions *)
Atan2Deg(dy, dx) ==
  IF dy.n = 0 THEN (IF dx.n < 0 THEN R(180) ELSE R(0))
  ELSE IF dx.n = 0 THEN (IF dy.n > 0 THEN R(90) ELSE R(-90))
  ELSE IF dy.n > 0 THEN (IF dx.n > 0 THEN R(45) ELSE R(135))
  ELSE (IF dx.n > 0 THEN R(-45) ELSE R(-135))

(* ---------------------------------------------------------------------- *)
(* Optional fields: a key can be missing, present with the value           *)
(* undefined, or present with a value.  JSON.stringify drops the second.   *)
(* ---------------------------------------------------------------------- *)
Vec(x, y) == [x |-> x, y |-> y]
Absent(dflt) == [k |-> "absent", v |-> dflt]
Undefined(dflt) == [k |-> "undefined", v |-> dflt]
Some(v) == [k |-> "value", v |-> v]
IsSet(o) == o.k = "value"
ZeroVec == Vec(R(0), R(0))
NoVec == Absent(ZeroVec)
NoNum == Absent(R(0))
(* a || b for an optional a *)
OrElse(o, dflt) == IF IsSet(o) THEN o.v ELSE dflt
(* what JSON.parse(JSON.stringify(.)) leaves of an optional field *)
JsonOpt(o) == IF o.k = "undefined" THEN [k |-> "absent", v |-> o.v] ELSE o
(* the same for a number: NaN is written as null, which counts as 0 in     *)
(* arithmetic and is not undefined                                         *)
JsonNum(o) ==
  IF o.k = "value" /\ o.v.d = 0 THEN [k |-> "null", v |-> [n |-> 0, d |-> 1]] ELSE JsonOpt(o)
(* o !== undefined ? o : dflt *)
IfDefined(o, dflt) == IF o.k \in {"value", "null"} THEN o.v ELSE dflt

(* ---------------------------------------------------------------------- *)
(* Colours: a hex string is its channels; a = -1 is the 6-digit form,      *)
(* a in 0..255 the alpha byte of the 8-digit form                          *)
(* ---------------------------------------------------------------------- *)
Hex(r, g, b) == [r |-> r, g |-> g, b |-> b, a |-> -1]
White == Hex(255, 255, 255)
Black == Hex(0, 0, 0)
INITIAL_PALETTE == << Hex(0, 235, 229), Hex(218, 163, 255), Hex(249, 171, 62) >>

parseHex(c) ==
  [r |-> R(c.r), g |-> R(c.g), b |-> R(c.b),
   a |-> IF c.a = -1 THEN R(1) ELSE Q(c.a, 255)]

toHex(n) == IF n < 0 THEN 0 ELSE IF n > 255 THEN 255 ELSE n

(* c1 + (c2 - c1) * factor *)
Mix(x1, x2, factor) == RAdd(x1, RMul(RSub(x2, x1), factor))

(* the hex string of the rounded channels r, g, b and the alpha a *)
HexOut(r, g, b, a) ==
  IF RLe(Q(999, 1000), a)
  THEN [r |-> toHex(r), g |-> toHex(g), b |-> toHex(b), a |-> -1]
  ELSE [r |-> toHex(r), g |-> toHex(g), b |-> toHex(b), a |-> toHex(RRound(RMul(a, R(255))))]

MixParsed(c1, c2, factor) ==
  HexOut(RRound(Mix(c1.r, c2.r, factor)), RRound(Mix(c1.g, c2.g, factor)),
         RRound(Mix(c1.b, c2.b, factor)), Mix(c1.a, c2.a, factor))

interpolateColor(color1, color2, factor) == MixParsed(parseHex(color1), parseHex(color2), factor)

(* The characters of a hex string after the '#': a sequence of digits     *)
(* 0..15.  ReadHex is what parseHex makes of its length and digit pairs,   *)
(* WriteHex the string the template literal builds from the toHex pairs.   *)
Pair(hex, i) == 16 * hex[i] + hex[i + 1]

(* a parse that reads a short digit h as h0 *)
ReadHexShortShifted(hex) ==
  IF Len(hex) = 3 THEN Hex(16 * hex[1], 16 * hex[2], 16 * hex[3])
  ELSE IF Len(hex) = 6 THEN Hex(Pair(hex, 1), Pair(hex, 3), Pair(hex, 5))
  ELSE IF Len(hex) = 8
  THEN [r |-> Pair(hex, 1), g |-> Pair(hex, 3), b |-> Pair(hex, 5), a |-> Pair(hex, 7)]
  ELSE Black

ReadHex(hex) ==
  IF Len(hex) = 3 THEN Hex(Pair(<< hex[1], hex[1] >>, 1), Pair(<< hex[2], hex[2] >>, 1),
                           Pair(<< hex[3], hex[3] >>, 1))
  ELSE IF Len(hex) = 6 THEN Hex(Pair(hex, 1), Pair(hex, 3), Pair(hex, 5))
  ELSE IF Len(hex) = 8
  THEN [r |-> Pair(hex, 1), g |-> Pair(hex, 3), b |-> Pair(hex, 5), a |-> Pair(hex, 7)]
  ELSE Black

(* n.toString(16).padStart(2, '0') for n in 0..255 *)
Padded(n) == << n \div 16, n % 16 >>

WriteHex(c) ==
  IF c.a = -1 THEN Padded(c.r) \o Padded(c.g) \o Padded(c.b)
  ELSE Padded(c.r) \o Padded(c.g) \o Padded(c.b) \o Padded(c.a)

(* interpolateColor on the strings themselves *)
interpolateColorString(color1, color2, factor) ==
  WriteHex(interpolateColor(ReadHex(color1), ReadHex(color2), factor))

(* ---------------------------------------------------------------------- *)
(* The sRGB transfer curve on 8-bit channels, in units of 1/LinScale:      *)
(* SrgbToLinearTable[n + 1] is srgbToLinear(n / 255); LinearThreshold[n]   *)
(* is the linear value from which Math.round(linearToSrgb(x) * 255) is at  *)
(* least n, that is srgbToLinear((n - 0.5) / 255)                          *)
(* ---------------------------------------------------------------------- *)
LinScale == 100000000

SrgbToLinearTable ==
  << 0, 30353, 60705, 91058, 121411, 151763, 182116, 212469,
     242822, 273174, 303527, 334654, 367651, 402472, 439144, 477695,
     518152, 560539, 604883, 651209, 699541, 749903, 802319, 856813,
     913406, 972122, 1032982, 1096009, 1161225, 1228649, 1298303, 1370208,
     1444384, 1520851, 1599629, 1680738, 1764195, 1850022, 1938236, 2028856,
     2121901, 2217388, 2315337, 2415763, 2518686, 2624122, 2732089, 2842604,
     2955683, 3071344, 3189603, 3310477, 3433981, 3560131, 3688945, 3820437,
     3954624, 4091520, 4231141, 4373503, 4518620, 4666509, 4817182, 4970657,
     5126946, 5286065, 5448028, 5612849, 5780543, 5951124, 6124605, 6301002,
     6480327, 6662594, 6847817, 7036010, 7227185, 7421357, 7618538, 7818742,
     8021982, 8228271, 8437621, 8650046, 8865559, 9084171, 9305896, 9530747,
     9758735, 9989873, 10224173, 10461648, 10702310, 10946171, 11193243, 11443537,
     11697067, 11953843, 12213877, 12477182, 12743768, 13013648, 13286832, 13563333,
     13843162, 14126329, 14412847, 14702727, 14995979, 15292615, 15592646, 15896084,
     16202938, 16513219, 16826940, 17144110, 17464740, 17788842, 18116424, 18447499,
     18782077, 19120168, 19461783, 19806932, 20155625, 20507874, 20863687, 21223076,
     21586050, 21952620, 22322796, 22696587, 23074005, 23455058, 23839757, 24228112,
     24620133, 25015828, 25415209, 25818285, 26225066, 26635560, 27049779, 27467731,
     27889426, 28314874, 28744084, 29177065, 29613827, 30054379, 30498731, 30946892,
     31398871, 31854678, 32314321, 32777810, 33245154, 33716362, 34191442, 34670406,
     35153260, 35640014, 36130678, 36625260, 37123768, 37626212, 38132601, 38642943,
     39157248, 39675523, 40197778, 40724021, 41254261, 41788507, 42326767, 42869050,
     43415364, 43965717, 44520119, 45078578, 45641102, 46207700, 46778380, 47353150,
     47932018, 48514994, 49102085, 49693300, 50288646, 50888132, 51491767, 52099557,
     52711513, 53327640, 53947949, 54572446, 55201140, 55834039, 56471151, 57112483,
     57758044, 58407842, 59061884, 59720179, 60382734, 61049557, 61720656, 62396039,
     63075714, 63759687, 64447968, 65140564, 65837482, 66538730, 67244316, 67954247,
     68668531, 69387176, 70110189, 70837578, 71569350, 72305513, 73046074, 73791041,
     74540421, 75294222, 76052450, 76815115, 77582222, 78353779, 79129794, 79910274,
     80695226, 81484657, 82278575, 83076988, 83879901, 84687323, 85499261, 86315721,
     87136712, 87962240, 88792312, 89626935, 90466117, 91309865, 92158186, 93011086,
     93868573, 94730654, 95597335, 96468625, 97344529, 98225055, 99110210, 100000000 >>

LinearThreshold ==
  << 15176, 45529, 75882, 106234, 136587, 166940, 197293, 227645,
     257998, 288351, 318830, 350926, 384831, 420575, 458183, 497684,
     539102, 582465, 627797, 675123, 724467, 775853, 829305, 884845,
     942497, 1002283, 1064224, 1128342, 1194659, 1263196, 1333973, 1407011,
     1482330, 1559950, 1639891, 1722172, 1806811, 1893829, 1983244, 2075074,
     2169338, 2266054, 2365239, 2466911, 2571089, 2677788, 2787027, 2898822,
     3013190, 3130148, 3249712, 3371899, 3496724, 3624204, 3754355, 3887193,
     4022732, 4160989, 4301978, 4445716, 4592217, 4741496, 4893569, 5048448,
     5206151, 5366690, 5530080, 5696336, 5865472, 6037501, 6212438, 6390297,
     6571092, 6754835, 6941541, 7131224, 7323896, 7519570, 7718262, 7919982,
     8124744, 8332562, 8543449, 8757416, 8974477, 9194644, 9417930, 9644348,
     9873909, 10106627, 10342513, 10581580, 10823840, 11069305, 11317986, 11569897,
     11825048, 12083452, 12345120, 12610064, 12878295, 13149826, 13424667, 13702831,
     13984327, 14269169, 14557366, 14848931, 15143873, 15442206, 15743939, 16049083,
     16357649, 16669649, 16985093, 17303992, 17626356, 17952197, 18281525, 18614350,
     18950683, 19290535, 19633915, 19980835, 20331305, 20685334, 21042934, 21404114,
     21768885, 22137256, 22509239, 22884842, 23264076, 23646951, 24033477, 24423664,
     24817521, 25215058, 25616285, 26021212, 26429848, 26842204, 27258288, 27678110,
     28101681, 28529008, 28960102, 29394973, 29833629, 30276080, 30722335, 31172404,
     31626296, 32084019, 32545584, 33010999, 33480274, 33953417, 34430438, 34911346,
     35396149, 35884857, 36377478, 36874022, 37374498, 37878913, 38387278, 38899600,
     39415889, 39936153, 40460401, 40988641, 41520883, 42057135, 42597405, 43141702,
     43690035, 44242412, 44798841, 45359332, 45923891, 46492529, 47065253, 47642071,
     48222992, 48808025, 49397176, 49990456, 50587871, 51189430, 51795142, 52405014,
     53019054, 53637272, 54259673, 54886268, 55517063, 56152068, 56791289, 57434734,
     58082413, 58734332, 59390499, 60050923, 60715611, 61384572, 62057812, 62735339,
     63417163, 64103289, 64793726, 65488482, 66187564, 66890980, 67598738, 68310845,
     69027308, 69748136, 70473336, 71202916, 71936882, 72675243, 73418006, 74165179,
     74916768, 75672782, 76433228, 77198112, 77967444, 78741229, 79519475, 80302190,
     81089381, 81881055, 82677219, 83477881, 84283048, 85092727, 85906925, 86725650,
     87548908, 88376707, 89209054, 90045956, 90887420, 91733453, 92584063, 93439256,
     94299039, 95163419, 96032404, 96906000, 97784214, 98667053, 99554525 >>

(* srgbToLinear(byte / 255), in units of 1/LinScale *)
srgbToLinear(byte) == SrgbToLinearTable[byte + 1]

(* Math.round(clamp01(linearToSrgb(x)) * 255) for x = num / (den * LinScale): *)
(* the largest n whose threshold is at or below x                          *)
RECURSIVE ByteIn(_, _, _, _)
ByteIn(num, den, lo, hi) ==
  IF lo >= hi THEN lo
  ELSE LET mid == (lo + hi + 1) \div 2
       IN IF LinearThreshold[mid] * den <= num
          THEN ByteIn(num, den, mid, hi) ELSE ByteIn(num, den, lo, mid - 1)
linearToSrgb(num, den) == ByteIn(num, den, 0, 255)

(* ---------------------------------------------------------------------- *)
(* The OKLCH colour math in fixed point: the number x is the integer       *)
(* x * LinScale, the matrix coefficients are taken to eight decimals and   *)
(* every product is cut to a multiple of 1/LinScale.  A hue is kept as the *)
(* pair (cos H, sin H) that oklchToOklab takes of it, with its degrees     *)
(* where they are known.  An encoded sRGB channel is kept as its linear    *)
(* value: linearToSrgb is increasing, so a bound on the encoded value is   *)
(* tested as srgbToLinear of the bound on the linear value.                *)
(* ---------------------------------------------------------------------- *)
FxBase == ISqrt(LinScale)

(* F applied to the values of its arguments: the arguments are computed    *)
(* once, as JavaScript computes them before the call                       *)
OnValue(F(_), x) == CHOOSE y \in { F(v) : v \in {x} } : TRUE
OnValues(F(_, _), x, y) == CHOOSE z \in { F(u, v) : u \in {x}, v \in {y} } : TRUE

FxMulAbs(a, b) ==
  (a \div FxBase) * (b \div FxBase)
    + ((a \div FxBase) * (b % FxBase) + (a % FxBase) * (b \div FxBase)
         + ((a % FxBase) * (b % FxBase)) \div FxBase) \div FxBase
FxSigned(a, b) ==
  IF (a < 0) = (b < 0) THEN FxMulAbs(Abs(a), Abs(b)) ELSE -FxMulAbs(Abs(a), Abs(b))
FxMul(a, b) == OnValues(FxSigned, a, b)
FxCube(a) == FxMul(FxMul(a, a), a)

(* the largest y in lo..hi with y * y <= x *)
RECURSIVE FxSqrtIn(_, _, _)
FxSqrtIn(x, lo, hi) ==
  IF lo >= hi THEN lo
  ELSE IF FxMulAbs((lo + hi + 1) \div 2, (lo + hi + 1) \div 2) <= x
       THEN FxSqrtIn(x, (lo + hi + 1) \div 2, hi)
       ELSE FxSqrtIn(x, lo, (lo + hi + 1) \div 2 - 1)
FxSqrt(x) == FxSqrtIn(x, 0, 2 * LinScale)

(* the largest y in lo..hi with y * y * y <= x *)
RECURSIVE FxCbrtIn(_, _, _)
FxCbrtIn(x, lo, hi) ==
  IF lo >= hi THEN lo
  ELSE IF FxCube((lo + hi + 1) \div 2) <= x
       THEN FxCbrtIn(x, (lo + hi + 1) \div 2, hi)
       ELSE FxCbrtIn(x, lo, (lo + hi + 1) \div 2 - 1)
cbrt(x) == IF x < 0 THEN -FxCbrtIn(-x, 0, 2 * LinScale) ELSE FxCbrtIn(x, 0, 2 * LinScale)

(* the largest q in lo..hi with q * b <= a, for 0 <= a <= b *)
RECURSIVE FxDivIn(_, _, _, _)
FxDivIn(a, b, lo, hi) ==
  IF lo >= hi THEN lo
  ELSE IF FxMulAbs((lo + hi + 1) \div 2, b) <= a
       THEN FxDivIn(a, b, (lo + hi + 1) \div 2, hi)
       ELSE FxDivIn(a, b, lo, (lo + hi + 1) \div 2 - 1)
FxDiv(a, b) == IF a < 0 THEN -FxDivIn(-a, b, 0, LinScale) ELSE FxDivIn(a, b, 0, LinScale)

Rgb(r, g, b) == [r |-> r, g |-> g, b |-> b]
Xyz(X, Y, Z) == [X |-> X, Y |-> Y, Z |-> Z]
OkLab(L, a, b) == [L |-> L, a |-> a, b |-> b]
Hue(deg, cos, sin) == [deg |-> deg, cos |-> cos, sin |-> sin]
OkLch(L, C, H) == [L |-> L, C |-> C, H |-> H]

linearSrgbToXyz(rgbLin) ==
  Xyz(FxMul(41222147, rgbLin.r) + FxMul(53633254, rgbLin.g) + FxMul(5144599, rgbLin.b),
      FxMul(21190350, rgbLin.r) + FxMul(68069955, rgbLin.g) + FxMul(10739696, rgbLin.b),
      FxMul(8830246, rgbLin.r) + FxMul(28171884, rgbLin.g) + FxMul(62997870, rgbLin.b))

xyzToLinearSrgb(xyz) ==
  Rgb(FxMul(324096994, xyz.X) - FxMul(153738318, xyz.Y) - FxMul(49861076, xyz.Z),
      FxMul(187596750, xyz.Y) - FxMul(96924364, xyz.X) + FxMul(4155506, xyz.Z),
      FxMul(5563008, xyz.X) - FxMul(20397696, xyz.Y) + FxMul(105697151, xyz.Z))

LabOfRoots(l_, m_, s_) ==
  OkLab(FxMul(21045426, l_) + FxMul(79361779, m_) - FxMul(407205, s_),
        FxMul(197799850, l_) - FxMul(242859221, m_) + FxMul(45059371, s_),
        FxMul(2590404, l_) + FxMul(78277177, m_) - FxMul(80867577, s_))

xyzToOklab(xyz) ==
  LabOfRoots(cbrt(FxMul(81893301, xyz.X) + FxMul(36186674, xyz.Y) - FxMul(12885971, xyz.Z)),
             cbrt(FxMul(3298454, xyz.X) + FxMul(92931187, xyz.Y) + FxMul(3614564, xyz.Z)),
             cbrt(FxMul(4820030, xyz.X) + FxMul(26436627, xyz.Y) + FxMul(63385171, xyz.Z)))

XyzOfCubes(l, m, s) ==
  Xyz(FxMul(122701385, l) - FxMul(55779998, m) + FxMul(28125615, s),
      FxMul(111225687, m) - FxMul(4058018, l) - FxMul(7167668, s),
      FxMul(158616322, s) - FxMul(7638128, l) - FxMul(42148198, m))

oklabToXyz(lab) ==
  XyzOfCubes(FxCube(lab.L + FxMul(39633778, lab.a) + FxMul(21580376, lab.b)),
             FxCube(lab.L - FxMul(10556135, lab.a) - FxMul(6385417, lab.b)),
             FxCube(lab.L - FxMul(8948418, lab.a) - FxMul(129148555, lab.b)))

(* H = atan2(b, a) when C > EPS, else 0; EPS = 1e-10 is below 1/LinScale *)
HueOf(lab, C) ==
  IF C > 0 THEN Hue(-1, FxDiv(lab.a, C), FxDiv(lab.b, C)) ELSE Hue(0, LinScale, 0)
LchOf(lab, C) == OkLch(lab.L, C, HueOf(lab, C))
oklabToOklch(lab) == LchOf(lab, FxSqrt(FxMul(lab.a, lab.a) + FxMul(lab.b, lab.b)))

oklchToOklab(lch) == OkLab(lch.L, FxMul(lch.C, lch.H.cos), FxMul(lch.C, lch.H.sin))

(* rgb holds the three bytes of a hex colour *)
srgbEncodedToOklch(rgb) ==
  OnValue(oklabToOklch, OnValue(xyzToOklab, OnValue(linearSrgbToXyz,
    Rgb(srgbToLinear(rgb.r), srgbToLinear(rgb.g), srgbToLinear(rgb.b)))))

(* the three channels as linear values *)
oklchToSrgbEncoded(lch) ==
  OnValue(xyzToLinearSrgb, OnValue(oklabToXyz, OnValue(oklchToOklab, lch)))

(* e = 0.00005 on the encoded value: -e is srgbToLinear(-e) = -e / 12.92   *)
(* and 1 + e is srgbToLinear(1 + e) = ((1 + e + 0.055) / 1.055) ^ 2.4      *)
GamutE == 5000
GamutMinLinear == -((100 * GamutE) \div 1292)
GamutMaxLinear == 100011374
ChannelInGamut(u) == u >= GamutMinLinear /\ u <= GamutMaxLinear
ChannelsInGamut(rgb) ==
  ChannelInGamut(rgb.r) /\ ChannelInGamut(rgb.g) /\ ChannelInGamut(rgb.b)
isInGamutSrgbEncoded(rgb) == OnValue(ChannelsInGamut, rgb)

(* clampOklchToSrgbGamut: the state of its for loop, and one pass of it *)
ClampLoop(args, lo, hi, best, i) ==
  [name |-> "clampLoop", args |-> args, lo |-> lo, hi |-> hi, best |-> best, i |-> i]
ClampPass(loop, mid) ==
  IF isInGamutSrgbEncoded(oklchToSrgbEncoded([loop.args.lch EXCEPT !.C = mid]))
  THEN [loop EXCEPT !.best = mid, !.lo = mid, !.i = @ + 1]
  ELSE [loop EXCEPT !.hi = mid, !.i = @ + 1]
ClampReturn(args, result, iterations) ==
  [name |-> "clampOklchToSrgbGamut", args |-> args, result |-> result,
   iterations |-> iterations]

(* an entry that searches whether or not the colour is in gamut *)
ClampEnteredAlways(args) == ClampLoop(args, 0, args.lch.C, 0, 0)

(* the call up to the loop: the early return, or lo, hi, best and i = 0 *)
ClampEntered(args) ==
  IF isInGamutSrgbEncoded(oklchToSrgbEncoded(args.lch)) THEN ClampReturn(args, args.lch, 0)
  ELSE ClampLoop(args, 0, args.lch.C, 0, 0)

ClampLeft(loop) == ClampReturn(loop.args, [loop.args.lch EXCEPT !.C = loop.best], loop.i)

RECURSIVE ClampRun(_)
ClampRun(e) ==
  IF e.name # "clampLoop" THEN e
  ELSE IF e.i < e.args.maxIter THEN ClampRun(ClampPass(e, (e.lo + e.hi) \div 2))
  ELSE ClampLeft(e)

clampOklchToSrgbGamut(lch, maxIter) ==
  ClampRun(ClampEntered([lch |-> lch, maxIter |-> maxIter])).result

DefaultMaxIter == 20

(* the three bytes of the hex string that oklchToHex writes *)
BytesOf(lin) == Rgb(linearToSrgb(lin.r, 1), linearToSrgb(lin.g, 1), linearToSrgb(lin.b, 1))
oklchToHex(lch) == BytesOf(oklchToSrgbEncoded(clampOklchToSrgbGamut(lch, DefaultMaxIter)))

(* ---------------------------------------------------------------------- *)
(* Stops and stop lists                                                    *)
(* ---------------------------------------------------------------------- *)
Stop(id, offset, color) ==
  [id |-> id, offset |-> offset, color |-> color, opacity |-> R(1), midpoint |-> NoNum]

(* generateId(): the n-th identifier handed out.  Math.random collisions   *)
(* are not modelled: every call returns an identifier not seen before.     *)
generateId(n) == "id-" \o ToString(n)

(* Array.prototype.sort((a, b) => a.offset - b.offset): stable *)
RECURSIVE InsertByOffset(_, _)
InsertByOffset(sorted, s) ==
  IF sorted = << >> THEN << s >>
  ELSE IF RLt(s.offset, sorted[Len(sorted)].offset)
       THEN Append(InsertByOffset(SubSeq(sorted, 1, Len(sorted) - 1), s), sorted[Len(sorted)])
       ELSE Append(sorted, s)

RECURSIVE SortFrom(_, _, _)
SortFrom(stops, i, acc) ==
  IF i > Len(stops) THEN acc ELSE SortFrom(stops, i + 1, InsertByOffset(acc, stops[i]))

SortByOffset(stops) == SortFrom(stops, 1, << >>)

IsSortedByOffset(stops) ==
  \A i \in 1..(Len(stops) - 1) : RLe(stops[i].offset, stops[i + 1].offset)

StopIds(stops) == { stops[i].id : i \in 1..Len(stops) }

FilterOutId(stops, stopId) == SelectSeq(stops, LAMBDA s : s.id # stopId)

(* the colour between two neighbouring stops *)
ColorBetween(s1, s2, t) ==
  IF RSub(s2.offset, s1.offset).n = 0 THEN s1.color
  ELSE interpolateColor(s1.color, s2.color,
                        RDiv(RSub(t, s1.offset), RSub(s2.offset, s1.offset)))

(* the first i with sorted[i].offset <= t <= sorted[i + 1].offset, 0 if none *)
RECURSIVE SegmentAt(_, _, _)
SegmentAt(sorted, t, i) ==
  IF i >= Len(sorted) THEN 0
  ELSE IF RLe(sorted[i].offset, t) /\ RLe(t, sorted[i + 1].offset) THEN i
  ELSE SegmentAt(sorted, t, i + 1)

ColorInSegment(sorted, t, i) ==
  IF i = 0 THEN sorted[1].color ELSE ColorBetween(sorted[i], sorted[i + 1], t)

ColorOfSorted(sorted, t) ==
  IF Len(sorted) = 0 THEN Black
  ELSE IF RLe(t, sorted[1].offset) THEN sorted[1].color
  ELSE IF RLe(sorted[Len(sorted)].offset, t) THEN sorted[Len(sorted)].color
  ELSE ColorInSegment(sorted, t, SegmentAt(sorted, t, 1))

(* a lookup that walks the stops in stored order *)
getGradientColorAtStored(t, stops) == ColorOfSorted(stops, t)

getGradientColorAt(t, stops) == ColorOfSorted(SortByOffset(stops), t)

(* GradientRenderer's processStops: the stops in stored order, with a stop *)
(* injected after every stop whose midpoint is off 0.5 by more than 0.01   *)
MidOf(current) == IfDefined(current.midpoint, Q(1, 2))

MidStop(current, next) ==
  [id |-> "mid-" \o current.id \o "-" \o next.id,
   offset |-> RAdd(current.offset, RMul(RSub(next.offset, current.offset), MidOf(current))),
   color |-> interpolateColor(current.color, next.color, Q(1, 2)),
   opacity |-> RDiv(RAdd(current.opacity, next.opacity), R(2)),
   midpoint |-> NoNum]

RECURSIVE ProcessFrom(_, _)
ProcessFrom(stops, i) ==
  IF i > Len(stops) THEN << >>
  ELSE IF i < Len(stops) /\ RLt(Q(1, 100), RAbs(RSub(MidOf(stops[i]), Q(1, 2))))
  THEN << stops[i], MidStop(stops[i], stops[i + 1]) >> \o ProcessFrom(stops, i + 1)
  ELSE << stops[i] >> \o ProcessFrom(stops, i + 1)

processStops(stops) == ProcessFrom(stops, 1)

(* ---------------------------------------------------------------------- *)
(* fixGradientBanding                                                      *)
(* ---------------------------------------------------------------------- *)
MIN_OFFSET_DIFF == Q(5, 1000)
BandingSteps == 8

ChannelDistance(c1, c2) == Q(Abs(c1.r - c2.r) + Abs(c1.g - c2.g) + Abs(c1.b - c2.b), 255)

(* hard-edge test that also skips a gap of exactly MIN_OFFSET_DIFF *)
NeedsSmoothingAboveGap(start, end) ==
  /\ RLt(MIN_OFFSET_DIFF, RSub(end.offset, start.offset))
  /\ ~RLt(ChannelDistance(start.color, end.color), Q(5, 100))

NeedsSmoothing(start, end) ==
  /\ ~RLt(RSub(end.offset, start.offset), MIN_OFFSET_DIFF)
  /\ ~RLt(ChannelDistance(start.color, end.color), Q(5, 100))

BandingChannel(b1, b2, k) ==
  linearToSrgb(srgbToLinear(b1) * BandingSteps + (srgbToLinear(b2) - srgbToLinear(b1)) * k,
               BandingSteps)

(* inserted stops spread so that the last one lands on the end stop *)
BandingStopToEnd(start, end, k, idIndex) ==
  LET t == Q(k, BandingSteps - 1)
  IN [id |-> generateId(idIndex),
      offset |-> RAdd(start.offset, RMul(RSub(end.offset, start.offset), t)),
      color |-> Hex(BandingChannel(start.color.r, end.color.r, k),
                    BandingChannel(start.color.g, end.color.g, k),
                    BandingChannel(start.color.b, end.color.b, k)),
      opacity |-> RAdd(start.opacity, RMul(RSub(end.opacity, start.opacity), t)),
      midpoint |-> NoNum]

BandingStop(start, end, k, idIndex) ==
  LET t == Q(k, BandingSteps)
  IN [id |-> generateId(idIndex),
      offset |-> RAdd(start.offset, RMul(RSub(end.offset, start.offset), t)),
      color |-> Hex(BandingChannel(start.color.r, end.color.r, k),
                    BandingChannel(start.color.g, end.color.g, k),
                    BandingChannel(start.color.b, end.color.b, k)),
      opacity |-> RAdd(start.opacity, RMul(RSub(end.opacity, start.opacity), t)),
      midpoint |-> NoNum]

(* a smoothing pass that numbers the inserted stops of every pair alike *)
RECURSIVE BandingFromSameIds(_, _, _)
BandingFromSameIds(sorted, i, idIndex) ==
  IF i >= Len(sorted) THEN << sorted[Len(sorted)] >>
  ELSE LET start == sorted[i]
           end == sorted[i + 1]
           inserted == IF NeedsSmoothing(start, end)
                       THEN [k \in 1..(BandingSteps - 1) |-> BandingStop(start, end, k, idIndex + k - 1)]
                       ELSE << >>
       IN << start >> \o inserted \o BandingFromSameIds(sorted, i + 1, idIndex)

RECURSIVE BandingFrom(_, _, _)
BandingFrom(sorted, i, idIndex) ==
  IF i >= Len(sorted) THEN << sorted[Len(sorted)] >>
  ELSE LET start == sorted[i]
           end == sorted[i + 1]
           inserted == IF NeedsSmoothing(start, end)
                       THEN [k \in 1..(BandingSteps - 1) |-> BandingStop(start, end, k, idIndex + k - 1)]
                       ELSE << >>
       IN << start >> \o inserted \o BandingFrom(sorted, i + 1, idIndex + Len(inserted))

(* idIndex: the number of identifiers generateId has handed out so far *)
fixGradientBanding(stops, idIndex) ==
  LET sorted == SortByOffset(stops)
  IN IF Len(sorted) < 2 THEN stops ELSE BandingFrom(sorted, 1, idIndex)

(* ---------------------------------------------------------------------- *)
(* Data model (types.ts) and the constructed store (store.ts)              *)
(* ---------------------------------------------------------------------- *)
MAX_HISTORY == 50

Solid(color) == [kind |-> "solid", color |-> color]
IsString(fill) == fill.kind = "solid"

Gradient(type, angle, stops) ==
  [kind |-> "gradient", type |-> type, angle |-> angle, stops |-> stops,
   center |-> Vec(Q(1, 2), Q(1, 2)), start |-> NoVec, end |-> NoVec, radius |-> NoNum]

INITIAL_GRADIENT ==
  Gradient("linear", R(135),
           << Stop("init-1", R(0), INITIAL_PALETTE[1]),
              Stop("init-2", Q(1, 2), INITIAL_PALETTE[2]),
              Stop("init-3", R(1), INITIAL_PALETTE[3]) >>)

Layer(id, x, y, width, height, fill) ==
  [id |-> id, type |-> "artboard", x |-> R(x), y |-> R(y),
   width |-> R(width), height |-> R(height), rotation |-> R(0), fill |-> fill]

viewport == [x |-> R(0), y |-> R(0), zoom |-> Q(4, 5)]

VARIABLES
  layers,            \* store.layers: layer id -> Layer
  layerOrder,        \* store.layerOrder
  selectedIds,       \* store.selectedIds
  history,           \* store.history: [past, future], sequences of snapshots
  interactionMode,   \* store.interactionMode
  idCount,           \* number of identifiers generateId has handed out
  dragRef,           \* GradientOverlay: dragRef.current
  selectedStopId,    \* GradientOverlay: selectedStopId ("" is null)
  isRotating,        \* GradientOverlay: isRotating
  canvas,            \* InfiniteCanvas: isDragging, dragTarget, dragStartScreenPos, dragInitialLayerPos
  resizeRef,         \* ResizeHandles: dragRef.current
  event,             \* the handler that ran last, with its arguments
  gesture,           \* the gradient and press recorded at the last pointer-down
  dragBegin,         \* the layer as it was when the current canvas or resize drag began
  used               \* how much of each exploration bound has been used

vars == << layers, layerOrder, selectedIds, history, interactionMode, idCount,
           dragRef, selectedStopId, isRotating, canvas, resizeRef, event, gesture,
           dragBegin, used >>

storeVars == << layers, layerOrder, selectedIds, history, idCount >>
overlayVars == << dragRef, selectedStopId, isRotating, interactionMode >>

(* The store as one value, so that handlers can be composed *)
Store == [layers |-> layers, layerOrder |-> layerOrder, selectedIds |-> selectedIds,
          history |-> history, idCount |-> idCount]

Commit(s) ==
  /\ layers' = s.layers
  /\ layerOrder' = s.layerOrder
  /\ selectedIds' = s.selectedIds
  /\ history' = s.history
  /\ idCount' = s.idCount

HasLayer(s, layerId) == layerId \in DOMAIN s.layers

(* JSON.parse(JSON.stringify({ layers, layerOrder })): keys whose value is *)
(* undefined are dropped, NaN becomes null                                 *)
JsonStop(st) == [st EXCEPT !.midpoint = JsonNum(st.midpoint)]
JsonFill(fill) ==
  IF IsString(fill) THEN fill
  ELSE [fill EXCEPT !.start = JsonOpt(fill.start), !.end = JsonOpt(fill.end),
                    !.radius = JsonOpt(fill.radius),
                    !.stops = [i \in 1..Len(fill.stops) |-> JsonStop(fill.stops[i])]]
JsonLayer(l) == IF "fill" \in DOMAIN l THEN [l EXCEPT !.fill = JsonFill(l.fill)] ELSE l
JsonSnapshot(ls, order) ==
  [layers |-> [id \in DOMAIN ls |-> JsonLayer(ls[id])], layerOrder |-> order]

LastN(seq, n) == IF Len(seq) <= n THEN seq ELSE SubSeq(seq, Len(seq) - n + 1, Len(seq))

(* a snapshot that keeps the whole past *)
saveSnapshotUncapped(s) ==
  LET current == JsonSnapshot(s.layers, s.layerOrder)
  IN [s EXCEPT !.history = [past |-> Append(s.history.past, current), future |-> << >>]]

saveSnapshot(s) ==
  LET current == JsonSnapshot(s.layers, s.layerOrder)
  IN [s EXCEPT !.history = [past |-> LastN(Append(s.history.past, current), MAX_HISTORY),
                            future |-> << >>]]

(* an undo that does not keep the state it leaves for redo *)
undoWithoutFuture(s) ==
  IF Len(s.history.past) = 0 THEN s
  ELSE LET previous == s.history.past[Len(s.history.past)]
       IN [s EXCEPT !.layers = previous.layers,
                    !.layerOrder = previous.layerOrder,
                    !.history = [past |-> SubSeq(s.history.past, 1, Len(s.history.past) - 1),
                                 future |-> s.history.future]]

undo(s) ==
  IF Len(s.history.past) = 0 THEN s
  ELSE LET previous == s.history.past[Len(s.history.past)]
           current == JsonSnapshot(s.layers, s.layerOrder)
       IN [s EXCEPT !.layers = previous.layers,
                    !.layerOrder = previous.layerOrder,
                    !.history = [past |-> SubSeq(s.history.past, 1, Len(s.history.past) - 1),
                                 future |-> << current >> \o s.history.future]]

redo(s) ==
  IF Len(s.history.future) = 0 THEN s
  ELSE LET next == s.history.future[1]
           current == JsonSnapshot(s.layers, s.layerOrder)
       IN [s EXCEPT !.layers = next.layers,
                    !.layerOrder = next.layerOrder,
                    !.history = [past |-> Append(s.history.past, current),
                                 future |-> Tail(s.history.future)]]

(* { ...a, ...b } *)
Spread(a, b) == [f \in (DOMAIN a) \cup (DOMAIN b) |-> IF f \in DOMAIN b THEN b[f] ELSE a[f]]

SetFill(s, layerId, fill) == [s EXCEPT !.layers[layerId].fill = fill]

(* { ...state.layers[id], ...updates } under the key id, whether or not    *)
(* state.layers has that key: spreading undefined gives no keys            *)
NoKeys == [f \in {} |-> f]
Updated(ls, id, updates) ==
  [k \in (DOMAIN ls) \cup {id} |->
     IF k # id THEN ls[k]
     ELSE IF id \in DOMAIN ls THEN Spread(ls[id], updates) ELSE Spread(NoKeys, updates)]

updateLayer(s, id, updates, recordHistory) ==
  LET s1 == IF recordHistory THEN saveSnapshot(s) ELSE s
  IN [s1 EXCEPT !.layers = Updated(s1.layers, id, updates)]

addLayer(s, layer) ==
  LET s1 == saveSnapshot(s)
  IN [s1 EXCEPT !.layers = [id \in (DOMAIN s1.layers) \cup {layer.id} |->
                              IF id = layer.id THEN layer ELSE s1.layers[id]],
                !.layerOrder = Append(s1.layerOrder, layer.id),
                !.selectedIds = << layer.id >>]

updateLayerGradient(s, layerId, gradientUpdates, recordHistory) ==
  LET s1 == IF recordHistory THEN saveSnapshot(s) ELSE s
      layer == s1.layers[layerId]
      fill == IF IsString(layer.fill) THEN Spread(INITIAL_GRADIENT, gradientUpdates)
              ELSE Spread(layer.fill, gradientUpdates)
  IN SetFill(s1, layerId, fill)

smoothLayerGradient(s, layerId) ==
  LET s1 == saveSnapshot(s)
  IN IF ~HasLayer(s1, layerId) \/ IsString(s1.layers[layerId].fill) THEN s1
     ELSE LET fill == s1.layers[layerId].fill
              stops == fixGradientBanding(fill.stops, s1.idCount)
          IN [SetFill(s1, layerId, [fill EXCEPT !.stops = stops])
                EXCEPT !.idCount = s1.idCount + (Len(stops) - Len(fill.stops))]

(* addGradientStop putting the new stop in front of the list before sorting *)
addGradientStopInFront(s, layerId, offset, color) ==
  LET s1 == saveSnapshot(s)
  IN IF ~HasLayer(s1, layerId) \/ IsString(s1.layers[layerId].fill) THEN s1
     ELSE LET fill == s1.layers[layerId].fill
              stops == SortByOffset(<< Stop(generateId(s1.idCount), offset, color) >> \o fill.stops)
          IN [SetFill(s1, layerId, [fill EXCEPT !.stops = stops])
                EXCEPT !.idCount = s1.idCount + 1]

addGradientStop(s, layerId, offset, color) ==
  LET s1 == saveSnapshot(s)
  IN IF ~HasLayer(s1, layerId) \/ IsString(s1.layers[layerId].fill) THEN s1
     ELSE LET fill == s1.layers[layerId].fill
              stops == SortByOffset(Append(fill.stops, Stop(generateId(s1.idCount), offset, color)))
          IN [SetFill(s1, layerId, [fill EXCEPT !.stops = stops])
                EXCEPT !.idCount = s1.idCount + 1]

(* removeGradientStop without the floor of two stops *)
removeGradientStopNoFloor(s, layerId, stopId) ==
  LET s1 == saveSnapshot(s)
  IN IF ~HasLayer(s1, layerId) \/ IsString(s1.layers[layerId].fill) THEN s1
     ELSE LET fill == s1.layers[layerId].fill
          IN SetFill(s1, layerId, [fill EXCEPT !.stops = FilterOutId(fill.stops, stopId)])

removeGradientStop(s, layerId, stopId) ==
  LET s1 == saveSnapshot(s)
  IN IF ~HasLayer(s1, layerId) \/ IsString(s1.layers[layerId].fill)
        \/ Len(s1.layers[layerId].fill.stops) <= 2 THEN s1
     ELSE LET fill == s1.layers[layerId].fill
          IN SetFill(s1, layerId, [fill EXCEPT !.stops = FilterOutId(fill.stops, stopId)])

(* updateGradientStop without the sort that follows the update *)
updateGradientStopUnsorted(s, layerId, stopId, updates) ==
  IF ~HasLayer(s, layerId) \/ IsString(s.layers[layerId].fill) THEN s
  ELSE LET fill == s.layers[layerId].fill
           mapped == [i \in 1..Len(fill.stops) |->
                        IF fill.stops[i].id = stopId THEN Spread(fill.stops[i], updates)
                        ELSE fill.stops[i]]
       IN SetFill(s, layerId, [fill EXCEPT !.stops = mapped])

updateGradientStop(s, layerId, stopId, updates) ==
  IF ~HasLayer(s, layerId) \/ IsString(s.layers[layerId].fill) THEN s
  ELSE LET fill == s.layers[layerId].fill
           mapped == [i \in 1..Len(fill.stops) |->
                        IF fill.stops[i].id = stopId THEN Spread(fill.stops[i], updates)
                        ELSE fill.stops[i]]
       IN SetFill(s, layerId, [fill EXCEPT !.stops = SortByOffset(mapped)])

(* ---------------------------------------------------------------------- *)
(* Geometry helpers (utils.ts)                                             *)
(* ---------------------------------------------------------------------- *)
screenToCanvas(screenPos, vp) ==
  Vec(RDiv(RSub(screenPos.x, vp.x), vp.zoom), RDiv(RSub(screenPos.y, vp.y), vp.zoom))

canvasToScreen(canvasPos, vp) ==
  Vec(RAdd(RMul(canvasPos.x, vp.zoom), vp.x), RAdd(RMul(canvasPos.y, vp.zoom), vp.y))

(* the point at distance r from c in the direction whose cosine and sine are given *)
Polar(c, r, cos, sin) == Vec(RAdd(c.x, RMul(r, cos)), RAdd(c.y, RMul(r, sin)))

(* the four coordinates, given Math.cos(angleRad) and Math.sin(angleRad) *)
CoordsFrom(cos, sin) ==
  [x1 |-> RSub(Q(1, 2), RMul(Q(1, 2), cos)), y1 |-> RSub(Q(1, 2), RMul(Q(1, 2), sin)),
   x2 |-> RAdd(Q(1, 2), RMul(Q(1, 2), cos)), y2 |-> RAdd(Q(1, 2), RMul(Q(1, 2), sin))]

getGradientCoords(angleDeg) ==
  CoordsFrom(CosDeg(RSub(angleDeg, R(90))), SinDeg(RSub(angleDeg, R(90))))

CoordsStart(coords) == Vec(coords.x1, coords.y1)
CoordsEnd(coords) == Vec(coords.x2, coords.y2)

(* (dx, dy) rotated by the angle whose cosine and sine are given *)
Rotated(dx, dy, cos, sin) ==
  Vec(RSub(RMul(dx, cos), RMul(dy, sin)), RAdd(RMul(dx, sin), RMul(dy, cos)))

Normalized(p, layer) == Vec(RDiv(p.x, layer.width), RDiv(p.y, layer.height))

LocalOfCanvas(cp, layer) ==
  Normalized(Rotated(RSub(cp.x, layer.x), RSub(cp.y, layer.y),
                     CosDeg(RNeg(layer.rotation)), SinDeg(RNeg(layer.rotation))), layer)

getLocalPoint(screenPos, vp, layer) == LocalOfCanvas(screenToCanvas(screenPos, vp), layer)

(* (deg + 360) % 360 *)
Turn(deg) == JsMod(RAdd(deg, R(360)), R(360))

(* the conic projection: the pointer's direction from the centre, relative *)
(* to the gradient's angle, as a fraction of a full turn                   *)
ConicT(dy, dx, angle) ==
  RDiv(Turn(RSub(Turn(RAdd(Atan2Deg(dy, dx), R(90))), angle)), R(360))

(* the quotient without the test for a zero-length axis: 0 / 0 *)
DotOverUnguarded(apx, apy, abx, aby, lenSq) ==
  IF lenSq.n = 0 THEN [n |-> 0, d |-> 0] ELSE RDiv(RAdd(RMul(apx, abx), RMul(apy, aby)), lenSq)

DotOver(apx, apy, abx, aby, lenSq) ==
  IF lenSq.n = 0 THEN R(0) ELSE RDiv(RAdd(RMul(apx, abx), RMul(apy, aby)), lenSq)

ProjectDelta(apx, apy, abx, aby) ==
  DotOver(apx, apy, abx, aby, RAdd(RMul(abx, abx), RMul(aby, aby)))

(* scalar projection of (mx, my) onto the axis a -> b, 0 on a zero-length axis *)
ProjectOntoAxis(mx, my, ax, ay, bx, by) ==
  ProjectDelta(RSub(mx, ax), RSub(my, ay), RSub(bx, ax), RSub(by, ay))

(* the projection onto the axis between two points given in pixels *)
ProjectOntoPoints(mx, my, a, b) == ProjectOntoAxis(mx, my, a.x, a.y, b.x, b.y)

Clamp(lo, hi, t) == RMax(lo, RMin(hi, t))

Px(v, layer) == Vec(RMul(v.x, layer.width), RMul(v.y, layer.height))
PxWH(v, width, height) == Vec(RMul(v.x, width), RMul(v.y, height))

(* getGradientT's radiusPos: the default unless the gradient has a radius *)
GradientTRadiusPos(gradient) ==
  IF gradient.radius.k # "value" THEN Vec(Q(1, 2), R(1))
  ELSE Polar(gradient.center, gradient.radius.v,
             CosDeg(RSub(gradient.angle, R(90))), SinDeg(RSub(gradient.angle, R(90))))

(* getGradientT's linear axis: the stored handles only if both are stored *)
GradientTStart(gradient) ==
  IF IsSet(gradient.start) /\ IsSet(gradient.end) THEN gradient.start.v
  ELSE CoordsStart(getGradientCoords(gradient.angle))
GradientTEnd(gradient) ==
  IF IsSet(gradient.start) /\ IsSet(gradient.end) THEN gradient.end.v
  ELSE CoordsEnd(getGradientCoords(gradient.angle))

getGradientT(mx, my, gradient, layerWidth, layerHeight) ==
  IF gradient.type = "conic"
  THEN ConicT(RSub(my, RMul(gradient.center.y, layerHeight)),
              RSub(mx, RMul(gradient.center.x, layerWidth)), gradient.angle)
  ELSE IF gradient.type = "radial"
  THEN Clamp(R(0), R(1),
             ProjectOntoPoints(mx, my, PxWH(gradient.center, layerWidth, layerHeight),
                               PxWH(GradientTRadiusPos(gradient), layerWidth, layerHeight)))
  ELSE Clamp(R(0), R(1),
             ProjectOntoPoints(mx, my, PxWH(GradientTStart(gradient), layerWidth, layerHeight),
                               PxWH(GradientTEnd(gradient), layerWidth, layerHeight)))

(* GradientRenderer's linearGradient axis: the stored handles only if both *)
(* are stored, else the axis of the angle                                  *)
RendererCoords(gradient) ==
  IF IsSet(gradient.start) /\ IsSet(gradient.end)
  THEN [x1 |-> gradient.start.v.x, y1 |-> gradient.start.v.y,
        x2 |-> gradient.end.v.x, y2 |-> gradient.end.v.y]
  ELSE getGradientCoords(gradient.angle)

(* ---------------------------------------------------------------------- *)
(* GradientOverlay: values derived at render time                          *)
(* ---------------------------------------------------------------------- *)
OverlayLayer == "artboard-1"

renderStart(gradient) == OrElse(gradient.start, CoordsStart(getGradientCoords(gradient.angle)))
renderEnd(gradient) == OrElse(gradient.end, CoordsEnd(getGradientCoords(gradient.angle)))

radiusOf(gradient) == IF gradient.radius.k = "value" THEN gradient.radius.v ELSE Q(1, 2)

radiusPos(gradient) ==
  Polar(gradient.center, radiusOf(gradient),
        CosDeg(RSub(gradient.angle, R(90))), SinDeg(RSub(gradient.angle, R(90))))

conicRadius(layer) == RMul(RMin(layer.width, layer.height), Q(35, 100))
rotationOffsetPx == RDiv(R(32), viewport.zoom)

SqSum(dx, dy) == RAdd(RMul(dx, dx), RMul(dy, dy))
DistSq(a, b) == SqSum(RSub(a.x, b.x), RSub(a.y, b.y))

MidPoint(s, e) == Vec(RDiv(RAdd(s.x, e.x), R(2)), RDiv(RAdd(s.y, e.y), R(2)))

rotCenter(gradient, layer) ==
  IF gradient.type = "linear"
  THEN MidPoint(Px(renderStart(gradient), layer), Px(renderEnd(gradient), layer))
  ELSE Px(gradient.center, layer)

(* the point the rotation handle hangs off: end handle, radius handle, or  *)
(* the conic ring at the gradient angle                                    *)
triggerZonePos(gradient, layer) ==
  IF gradient.type = "linear" THEN Px(renderEnd(gradient), layer)
  ELSE IF gradient.type = "radial" THEN Px(radiusPos(gradient), layer)
  ELSE Polar(Px(gradient.center, layer), conicRadius(layer),
             CosDeg(RSub(gradient.angle, R(90))), SinDeg(RSub(gradient.angle, R(90))))

(* the base of the handle's direction: start handle or centre *)
RotBase(gradient, layer) ==
  IF gradient.type = "linear" THEN Px(renderStart(gradient), layer) ELSE Px(gradient.center, layer)

(* Math.sqrt is taken of a rational square only (RotHandleExact) *)
RotHandleExact(gradient, layer) ==
  gradient.type = "conic"
  \/ RIsSquare(DistSq(triggerZonePos(gradient, layer), RotBase(gradient, layer)))

(* the handle 32 screen pixels beyond the point t, in the direction b -> t of length len *)
HandleBeyond(t, b, len) ==
  IF RLt(Q(1, 1000), len)
  THEN Vec(RAdd(t.x, RMul(RDiv(RSub(t.x, b.x), len), rotationOffsetPx)),
           RAdd(t.y, RMul(RDiv(RSub(t.y, b.y), len), rotationOffsetPx)))
  ELSE Vec(t.x, RSub(t.y, rotationOffsetPx))

HandleFrom(t, b) == HandleBeyond(t, b, RSqrt(DistSq(t, b)))

rotHandlePos(gradient, layer) ==
  IF gradient.type = "conic"
  THEN Polar(Px(gradient.center, layer), RAdd(conicRadius(layer), rotationOffsetPx),
             CosDeg(RSub(gradient.angle, R(90))), SinDeg(RSub(gradient.angle, R(90))))
  ELSE HandleFrom(triggerZonePos(gradient, layer), RotBase(gradient, layer))

(* getPosOnGradient; for a conic gradient the ring angle must be a multiple of 90 *)
PosAngle(gradient, offset) == RSub(RAdd(gradient.angle, RMul(offset, R(360))), R(90))
PosExact(gradient, offset) == gradient.type # "conic" \/ TrigExact(PosAngle(gradient, offset))

(* a + (b - a) * offset, per coordinate *)
Along(a, b, offset) ==
  Vec(RAdd(a.x, RMul(RSub(b.x, a.x), offset)), RAdd(a.y, RMul(RSub(b.y, a.y), offset)))

(* the point at normalised radii (rx, ry) from c *)
Ring(c, rx, ry, cos, sin) == Vec(RAdd(c.x, RMul(rx, cos)), RAdd(c.y, RMul(ry, sin)))

getPosOnGradient(gradient, layer, offset) ==
  IF gradient.type = "conic"
  THEN Ring(gradient.center, RDiv(conicRadius(layer), layer.width),
            RDiv(conicRadius(layer), layer.height),
            CosDeg(PosAngle(gradient, offset)), SinDeg(PosAngle(gradient, offset)))
  ELSE IF gradient.type = "radial"
  THEN Polar(gradient.center, RMul(offset, radiusOf(gradient)),
             CosDeg(RSub(gradient.angle, R(90))), SinDeg(RSub(gradient.angle, R(90))))
  ELSE Along(renderStart(gradient), renderEnd(gradient), offset)

(* getProjectionT; the conic branch needs a principal direction (ProjectionExact) *)
ProjectionExact(gradient, layer, mx, my) ==
  gradient.type = "conic" =>
    Principal(RSub(my, RMul(gradient.center.y, layer.height)),
              RSub(mx, RMul(gradient.center.x, layer.width)))

getProjectionT(gradient, layer, mx, my) ==
  IF gradient.type = "conic"
  THEN ConicT(RSub(my, RMul(gradient.center.y, layer.height)),
              RSub(mx, RMul(gradient.center.x, layer.width)), gradient.angle)
  ELSE IF gradient.type = "radial"
  THEN ProjectOntoPoints(mx, my, Px(gradient.center, layer), Px(radiusPos(gradient), layer))
  ELSE ProjectOntoPoints(mx, my, Px(renderStart(gradient), layer), Px(renderEnd(gradient), layer))

(* where a point of the layer's box (normalised) is on the screen *)
ScreenOfOffset(layer, d) == canvasToScreen(Vec(RAdd(layer.x, d.x), RAdd(layer.y, d.y)), viewport)
LocalToScreen(localPos, layer) ==
  ScreenOfOffset(layer, Rotated(RMul(localPos.x, layer.width), RMul(localPos.y, layer.height),
                                CosDeg(layer.rotation), SinDeg(layer.rotation)))
(* the same for a point given in the layer's pixels *)
PxToScreen(p, layer) ==
  ScreenOfOffset(layer, Rotated(p.x, p.y, CosDeg(layer.rotation), SinDeg(layer.rotation)))

(* ---------------------------------------------------------------------- *)
(* GradientOverlay: the gesture handlers.  Overlay is the component's own  *)
(* state; a handler maps (store, overlay) to the next (store, overlay).    *)
(* ---------------------------------------------------------------------- *)
NullState == [type |-> "null"]
IdleDrag == [active |-> FALSE, hasMoved |-> FALSE, startPos |-> ZeroVec, state |-> NullState]
NaN == [n |-> 0, d |-> 0]

Overlay == [dragRef |-> dragRef, selectedStopId |-> selectedStopId,
            isRotating |-> isRotating, interactionMode |-> interactionMode]

CommitOverlay(o) ==
  /\ dragRef' = o.dragRef
  /\ selectedStopId' = o.selectedStopId
  /\ isRotating' = o.isRotating
  /\ interactionMode' = o.interactionMode

(* the overlay renders (and has handlers) only over a gradient fill *)
Rendered(s) == HasLayer(s, OverlayLayer) /\ ~IsString(s.layers[OverlayLayer].fill)

(* reading an optional property: a missing key reads as undefined *)
ReadOpt(o) == IF o.k = "absent" THEN [k |-> "undefined", v |-> o.v] ELSE o

(* useEffect([layer, selectedStopId]): a selection that no longer names a stop is dropped *)
SelectionEffect(s, o) ==
  IF ~Rendered(s) THEN [o EXCEPT !.selectedStopId = ""]
  ELSE IF o.selectedStopId # "" /\ o.selectedStopId \notin StopIds(s.layers[OverlayLayer].fill.stops)
  THEN [o EXCEPT !.selectedStopId = ""]
  ELSE o

(* Math.sqrt(dx*dx + dy*dy) of the axis in pixels *)
AxisLen(s, e, layer) ==
  RSqrt(SqSum(RMul(RSub(e.x, s.x), layer.width), RMul(RSub(e.y, s.y), layer.height)))

RotateState(gradient, layer) ==
  [type |-> "rotate", center |-> rotCenter(gradient, layer),
   isPointBased |-> gradient.type = "linear" /\ IsSet(gradient.start) /\ IsSet(gradient.end),
   currentLen |-> AxisLen(renderStart(gradient), renderEnd(gradient), layer),
   startAngle |-> gradient.angle]

StopState(gradient, id, offset) ==
  IF gradient.type # "conic" /\ RLt(RAbs(offset), Q(1, 1000))
  THEN [type |-> "move-start", id |-> id]
  ELSE IF gradient.type # "conic" /\ RLt(RAbs(RSub(offset, R(1))), Q(1, 1000))
  THEN [type |-> "move-end", id |-> id]
  ELSE [type |-> "move-stop", id |-> id]

PotentialStopAt(gradient, layer, client, m) ==
  [type |-> "potential-stop", startX |-> client.x, startY |-> client.y,
   t |-> Clamp(Q(1, 100), Q(99, 100), getProjectionT(gradient, layer, m.x, m.y)),
   valid |-> TRUE]

DragStateFor(gradient, layer, id, type, extraData, client) ==
  IF type = "rotate" THEN RotateState(gradient, layer)
  ELSE IF type = "center" THEN [type |-> "move-center"]
  ELSE IF type = "stop" THEN StopState(gradient, id, extraData)
  ELSE IF type = "midpoint"
  THEN [type |-> "move-midpoint", stopId |-> id,
        startStopOffset |-> extraData.startStopOffset, endStopOffset |-> extraData.endStopOffset]
  ELSE PotentialStopAt(gradient, layer, client, Px(getLocalPoint(client, viewport, layer), layer))

handlePointerDown(s, o, id, type, extraData, client) ==
  [s |-> s,
   o |-> [dragRef |-> [active |-> TRUE, hasMoved |-> FALSE, startPos |-> client,
                       state |-> DragStateFor(s.layers[OverlayLayer].fill, s.layers[OverlayLayer],
                                              id, type, extraData, client)],
          selectedStopId |-> IF type = "stop" /\ id # "" THEN id ELSE o.selectedStopId,
          isRotating |-> IF type = "rotate" THEN TRUE ELSE o.isRotating,
          interactionMode |-> "dragging-gradient"]]

(* the handles at distance (vx, vy) on either side of the frozen centre *)
RotatedHandles(state, layer, cssDeg, vx, vy) ==
  [angle |-> cssDeg,
   start |-> Some(Vec(RDiv(RSub(state.center.x, vx), layer.width),
                      RDiv(RSub(state.center.y, vy), layer.height))),
   end |-> Some(Vec(RDiv(RAdd(state.center.x, vx), layer.width),
                    RDiv(RAdd(state.center.y, vy), layer.height)))]

(* a rotation that puts each handle a whole axis length from the centre *)
RotateByFullLength(state, gradient, layer, rad) ==
  IF state.isPointBased /\ gradient.type = "linear"
  THEN RotatedHandles(state, layer, Turn(RAdd(rad, R(90))),
                      RMul(CosDeg(rad), state.currentLen),
                      RMul(SinDeg(rad), state.currentLen))
  ELSE [angle |-> Turn(RAdd(rad, R(90)))]

(* rad: Math.atan2(dY, dX), in degrees *)
RotateBy(state, gradient, layer, rad) ==
  IF state.isPointBased /\ gradient.type = "linear"
  THEN RotatedHandles(state, layer, Turn(RAdd(rad, R(90))),
                      RMul(CosDeg(rad), RDiv(state.currentLen, R(2))),
                      RMul(SinDeg(rad), RDiv(state.currentLen, R(2))))
  ELSE [angle |-> Turn(RAdd(rad, R(90)))]

RotateUpdates(state, gradient, layer, mx, my) ==
  RotateBy(state, gradient, layer, Atan2Deg(RSub(my, state.center.y), RSub(mx, state.center.x)))

(* if (x < 0) x += 1 *)
WrapUnit(x) == IF x.n < 0 THEN RAdd(x, R(1)) ELSE x

(* relT / range clamped to [0.1, 0.9]: Infinity clamps to 0.9, 0 / 0 stays NaN *)
ConicLocalT(relT, range) ==
  IF range.n = 0 THEN (IF relT.n = 0 THEN NaN ELSE Q(9, 10))
  ELSE Clamp(Q(1, 10), Q(9, 10), RDiv(relT, range))

LinearLocalT(t, startStopOffset, range) ==
  Clamp(Q(1, 10), Q(9, 10),
        IF RLt(Q(1, 1000), range) THEN RDiv(RSub(t, startStopOffset), range) ELSE Q(1, 2))

MidpointT(state, gradient, t) ==
  IF gradient.type = "conic"
  THEN ConicLocalT(WrapUnit(RSub(t, state.startStopOffset)),
                   WrapUnit(RSub(state.endStopOffset, state.startStopOffset)))
  ELSE LinearLocalT(t, state.startStopOffset, RSub(state.endStopOffset, state.startStopOffset))

(* a move-stop drag that writes the projection unclamped *)
StopOffsetAtUnclamped(gradient, t) == t

(* the offset a move-stop drag writes for the projection t *)
StopOffsetAt(gradient, t) ==
  IF gradient.type # "conic" THEN Clamp(Q(1, 100), Q(99, 100), t) ELSE t

(* a centre that moves half of the way to the pointer with every move *)
CenterUpdatesEased(gradient, mousePos) == [center |-> MidPoint(gradient.center, mousePos)]

(* updateLayerGradient(layer.id, { center: mousePos }) *)
CenterUpdates(gradient, mousePos) == [center |-> mousePos]

(* the store after the move; mousePos is the pointer in the layer's box, m in its pixels *)
MoveAt(s, state, gradient, layer, mousePos, m) ==
  IF state.type = "rotate"
  THEN updateLayerGradient(s, OverlayLayer, RotateUpdates(state, gradient, layer, m.x, m.y), TRUE)
  ELSE IF state.type = "potential-stop" THEN s
  ELSE IF state.type = "move-center"
  THEN updateLayerGradient(s, OverlayLayer, CenterUpdates(gradient, mousePos), TRUE)
  ELSE IF state.type = "move-start"
  THEN IF gradient.type = "linear"
       THEN updateLayerGradient(s, OverlayLayer,
                                [start |-> Some(mousePos), end |-> ReadOpt(gradient.end)], TRUE)
       ELSE IF gradient.type = "radial"
       THEN updateLayerGradient(s, OverlayLayer, [center |-> mousePos], TRUE)
       ELSE s
  ELSE IF state.type = "move-end"
  THEN IF gradient.type = "linear"
       THEN updateLayerGradient(s, OverlayLayer,
                                [end |-> Some(mousePos), start |-> ReadOpt(gradient.start)], TRUE)
       ELSE IF gradient.type = "radial"
       THEN updateLayerGradient(s, OverlayLayer,
              [radius |-> Some(RDiv(RSqrt(DistSq(m, Px(gradient.center, layer))), layer.width))], TRUE)
       ELSE s
  ELSE IF state.type = "move-stop"
  THEN updateGradientStop(s, OverlayLayer, state.id,
         [offset |-> StopOffsetAt(gradient, getProjectionT(gradient, layer, m.x, m.y))])
  ELSE IF state.type = "move-midpoint"
  THEN updateGradientStop(s, OverlayLayer, state.stopId,
         [midpoint |-> Some(MidpointT(state, gradient, getProjectionT(gradient, layer, m.x, m.y)))])
  ELSE s

MoveIn(s, state, layer, mousePos) ==
  MoveAt(s, state, layer.fill, layer, mousePos, Px(mousePos, layer))

MoveStore(s, state, client) ==
  MoveIn(s, state, s.layers[OverlayLayer], getLocalPoint(client, viewport, s.layers[OverlayLayer]))

MOVE_THRESHOLD == 16

ExceedsThreshold(startPos, client) ==
  RLt(R(MOVE_THRESHOLD), DistSq(client, startPos))

(* the drag record after a move, given the moved flag *)
MovedDrag(drag, hasMoved) ==
  [drag EXCEPT !.hasMoved = hasMoved,
               !.state = IF drag.state.type = "potential-stop" /\ hasMoved
                         THEN [drag.state EXCEPT !.valid = FALSE] ELSE drag.state]

(* a moved flag that follows the pointer's present distance from the press *)
handlePointerMoveForgetful(s, o, client) ==
  IF ~o.dragRef.active \/ o.dragRef.state.type = "null" THEN [s |-> s, o |-> o]
  ELSE [s |-> MoveStore(s, o.dragRef.state, client),
        o |-> [o EXCEPT !.dragRef =
                 MovedDrag(o.dragRef, ExceedsThreshold(o.dragRef.startPos, client))]]

handlePointerMove(s, o, client) ==
  IF ~o.dragRef.active \/ o.dragRef.state.type = "null" THEN [s |-> s, o |-> o]
  ELSE [s |-> MoveStore(s, o.dragRef.state, client),
        o |-> [o EXCEPT !.dragRef =
                 MovedDrag(o.dragRef,
                           o.dragRef.hasMoved \/ ExceedsThreshold(o.dragRef.startPos, client))]]

(* !hasMoved && state *)
IsClick(drag) == ~drag.hasMoved /\ drag.state.type # "null"

handlePointerUp(s, o) ==
  IF ~o.dragRef.active THEN [s |-> s, o |-> o]
  ELSE [s |-> IF IsClick(o.dragRef) /\ o.dragRef.state.type = "potential-stop" /\ o.dragRef.state.valid
              THEN addGradientStop(s, OverlayLayer, o.dragRef.state.t,
                                   getGradientColorAt(o.dragRef.state.t,
                                                      s.layers[OverlayLayer].fill.stops))
              ELSE s,
        o |-> [dragRef |-> IdleDrag,
               selectedStopId |-> IF IsClick(o.dragRef)
                                     /\ o.dragRef.state.type \in {"move-stop", "move-start", "move-end"}
                                  THEN o.dragRef.state.id ELSE o.selectedStopId,
               isRotating |-> FALSE,
               interactionMode |-> "idle"]]

handleDeleteStop(s, o, id) ==
  [s |-> removeGradientStop(s, OverlayLayer, id), o |-> [o EXCEPT !.selectedStopId = ""]]

(* ---------------------------------------------------------------------- *)
(* Inputs                                                                  *)
(* ---------------------------------------------------------------------- *)
(* pointer positions, in screen pixels: the points (100,400), (600,400),   *)
(* (900,400) and (600,120) of the initial artboard's box                   *)
PointerPositions ==
  { Vec(R(160), R(400)), Vec(R(560), R(400)), Vec(R(800), R(400)), Vec(R(560), R(176)) }

(* a pointer that has moved 4 screen pixels from the press: within the threshold *)
Nudge(pos) == Vec(RAdd(pos.x, R(4)), pos.y)

(* gradients offered by the toolbar (generated presets and AI results), and *)
(* a gradient with explicit handles                                         *)
GradientInputs ==
  { [type |-> "linear", angle |-> R(90), center |-> Vec(Q(1, 2), Q(1, 2)),
     stops |-> << Stop("ai-1", R(0), INITIAL_PALETTE[1]), Stop("ai-2", Q(1, 4), INITIAL_PALETTE[2]),
                  Stop("ai-3", Q(1, 2), INITIAL_PALETTE[3]), Stop("ai-4", R(1), INITIAL_PALETTE[1]) >>],
    [type |-> "radial", angle |-> R(0), center |-> Vec(Q(1, 2), Q(1, 2)), radius |-> Some(Q(4, 5)),
     stops |-> << Stop("gen-1", R(0), INITIAL_PALETTE[1]), Stop("gen-2", R(1), INITIAL_PALETTE[2]) >>],
    [type |-> "conic", angle |-> R(0), center |-> Vec(Q(1, 2), Q(1, 2)),
     stops |-> << Stop("cn-1", R(0), INITIAL_PALETTE[1]), Stop("cn-2", Q(1, 4), INITIAL_PALETTE[2]),
                  Stop("cn-3", Q(1, 2), INITIAL_PALETTE[3]) >>],
    [type |-> "linear", angle |-> R(90), center |-> Vec(Q(1, 2), Q(1, 2)),
     start |-> Some(Vec(Q(1, 4), Q(1, 2))), end |-> Some(Vec(Q(3, 4), Q(1, 2))),
     stops |-> << Stop("pt-1", R(0), Black), Stop("pt-2", Q(1, 2), INITIAL_PALETTE[2]),
                  Stop("pt-3", R(1), White) >>] }

OffsetInputs == { R(0), Q(1, 2), R(1) }
MissingLayer == "missing"
MissingStop == "nope"

(* ---------------------------------------------------------------------- *)
(* Hit targets of the overlay: where a pointer-down on a handle lands      *)
(* ---------------------------------------------------------------------- *)
lineTouchWidth == RDiv(R(20), viewport.zoom)

Within01(t) == RLe(R(0), t) /\ RLe(t, R(1))

CrossOf(m, a, b) ==
  RSub(RMul(RSub(m.x, a.x), RSub(b.y, a.y)), RMul(RSub(m.y, a.y), RSub(b.x, a.x)))

(* m on the centre line of the stroke from a to b *)
OnSegment(m, a, b) ==
  a # b /\ CrossOf(m, a, b).n = 0 /\ Within01(ProjectOntoPoints(m.x, m.y, a, b))

(* the squared distance dSq within the stroke of the ring, radii lo to hi *)
OnRing(dSq, lo, hi) == RLe(RMul(lo, lo), dSq) /\ RLe(dSq, RMul(hi, hi))

(* a press at m (the layer's pixels) on the axis line: on the ring of a    *)
(* conic gradient, on the centre line of the stroke otherwise              *)
OnLineAt(gradient, layer, m) ==
  IF gradient.type = "conic"
  THEN OnRing(DistSq(m, Px(gradient.center, layer)),
              RSub(conicRadius(layer), RDiv(lineTouchWidth, R(2))),
              RAdd(conicRadius(layer), RDiv(lineTouchWidth, R(2))))
  ELSE IF gradient.type = "radial"
  THEN OnSegment(m, Px(gradient.center, layer), Px(radiusPos(gradient), layer))
  ELSE OnSegment(m, Px(renderStart(gradient), layer), Px(renderEnd(gradient), layer))

OnLine(gradient, layer, client) ==
  OnLineAt(gradient, layer, Px(getLocalPoint(client, viewport, layer), layer))

Target(id, type, extraData, client) ==
  [id |-> id, type |-> type, extraData |-> extraData, client |-> client]

StopTargets(gradient, layer) ==
  { Target(gradient.stops[i].id, "stop", gradient.stops[i].offset,
           LocalToScreen(getPosOnGradient(gradient, layer, gradient.stops[i].offset), layer)) :
      i \in { j \in 1..Len(gradient.stops) : PosExact(gradient, gradient.stops[j].offset) } }

(* where the midpoint handle between two stops is drawn *)
MidOffsetOf(s1, s2) ==
  RAdd(s1.offset, RMul(RSub(s2.offset, s1.offset), IfDefined(s1.midpoint, Q(1, 2))))
MidOffset(gradient, i) == MidOffsetOf(gradient.stops[i], gradient.stops[i + 1])

MidpointTargets(gradient, layer) ==
  { Target(gradient.stops[i].id, "midpoint",
           [startStopOffset |-> gradient.stops[i].offset, endStopOffset |-> gradient.stops[i + 1].offset],
           LocalToScreen(getPosOnGradient(gradient, layer, MidOffset(gradient, i)), layer)) :
      i \in { j \in 1..(Len(gradient.stops) - 1) :
                IfDefined(gradient.stops[j].midpoint, Q(1, 2)) # NaN
                /\ PosExact(gradient, MidOffset(gradient, j)) } }

LinePressAt(gradient, layer, m) ==
  OnLineAt(gradient, layer, m) /\ ProjectionExact(gradient, layer, m.x, m.y)

LineTargets(gradient, layer) ==
  { Target("", "line", R(0), p) :
      p \in { q \in PointerPositions :
                LinePressAt(gradient, layer, Px(getLocalPoint(q, viewport, layer), layer)) } }

AxisLenSq(gradient, layer) == DistSq(Px(renderEnd(gradient), layer), Px(renderStart(gradient), layer))

RotateTargets(gradient, layer) ==
  IF RotHandleExact(gradient, layer) /\ RIsSquare(AxisLenSq(gradient, layer))
  THEN { Target("", "rotate", R(0), PxToScreen(rotHandlePos(gradient, layer), layer)) }
  ELSE {}

CenterTargets(gradient, layer) ==
  IF gradient.type \in {"radial", "conic"}
  THEN { Target("", "center", R(0), LocalToScreen(gradient.center, layer)) }
  ELSE {}

Targets(gradient, layer) ==
  StopTargets(gradient, layer) \cup MidpointTargets(gradient, layer)
    \cup LineTargets(gradient, layer) \cup RotateTargets(gradient, layer)
    \cup CenterTargets(gradient, layer)

(* whether the model can compute the move exactly *)
MoveExactAt(state, gradient, layer, m) ==
  /\ TrigExact(gradient.angle)
  /\ state.type = "rotate" => Axial(RSub(m.y, state.center.y), RSub(m.x, state.center.x))
  /\ (state.type = "move-end" /\ gradient.type = "radial")
       => RIsSquare(DistSq(m, Px(gradient.center, layer)))
  /\ state.type \in {"move-stop", "move-midpoint"} => ProjectionExact(gradient, layer, m.x, m.y)

MoveExact(s, state, client) ==
  MoveExactAt(state, s.layers[OverlayLayer].fill, s.layers[OverlayLayer],
              Px(getLocalPoint(client, viewport, s.layers[OverlayLayer]), s.layers[OverlayLayer]))

(* ---------------------------------------------------------------------- *)
(* The state machine                                                       *)
(* ---------------------------------------------------------------------- *)
(* InfiniteCanvas: the refs before any pointer-down ("" is null) *)
IdleCanvas ==
  [isDragging |-> FALSE, dragTarget |-> "", dragStartScreenPos |-> ZeroVec,
   dragInitialLayerPos |-> ZeroVec]
(* ResizeHandles: dragRef.current = null *)
NullResize ==
  [active |-> FALSE, handle |-> "", startX |-> R(0), startY |-> R(0),
   initial |-> [x |-> R(0), y |-> R(0), width |-> R(0), height |-> R(0), rotation |-> R(0)]]
BoxOf(l) == [x |-> l.x, y |-> l.y, width |-> l.width, height |-> l.height]
NoDrag == [phase |-> "none", kind |-> "none", id |-> "", box |-> BoxOf(NullResize.initial)]

NoGesture ==
  [phase |-> "none", fill0 |-> INITIAL_GRADIENT, drag0 |-> IdleDrag, moves |-> 0,
   exceeded |-> FALSE, pure |-> FALSE]

InitProgram ==
  /\ layers = [id \in {OverlayLayer} |-> Layer(OverlayLayer, 100, 100, 1200, 800, INITIAL_GRADIENT)]
  /\ layerOrder = << OverlayLayer >>
  /\ selectedIds = << OverlayLayer >>
  /\ history = [past |-> << >>, future |-> << >>]
  /\ interactionMode = "idle"
  /\ idCount = 0
  /\ dragRef = IdleDrag
  /\ selectedStopId = ""
  /\ isRotating = FALSE
  /\ canvas = IdleCanvas
  /\ resizeRef = NullResize
  /\ gesture = NoGesture
  /\ dragBegin = NoDrag
  /\ used = [api |-> 0, loads |-> 0, downs |-> 0, moves |-> 0]

Init == InitProgram /\ event = [name |-> "init"]

(* one more step of kind k, while the bound max allows it *)
Use(k, max) == used[k] < max /\ used' = [used EXCEPT ![k] = @ + 1]

(* a handler has run: r is the store and overlay it leaves, and the        *)
(* overlay re-renders on the result                                        *)
Handled(r, ev, g) ==
  /\ Commit(r.s)
  /\ CommitOverlay(SelectionEffect(r.s, r.o))
  /\ event' = ev
  /\ gesture' = g
  /\ dragBegin' = NoDrag
  /\ UNCHANGED << canvas, resizeRef >>

(* a store call from outside the overlay *)
Outside(s, ev) == Handled([s |-> s, o |-> Overlay], ev, [gesture EXCEPT !.pure = FALSE])

LayerIds == (DOMAIN layers) \cup {MissingLayer}
KnownStopIds ==
  IF Rendered(Store) THEN StopIds(layers[OverlayLayer].fill.stops) \cup {MissingStop}
  ELSE {MissingStop}

(* BottomToolbar: a click on a generated gradient applies it to the selected layer *)
ApplyGradient(g) ==
  /\ Use("loads", MaxLoads)
  /\ ~dragRef.active
  /\ Len(selectedIds) = 1
  /\ HasLayer(Store, selectedIds[1])
  /\ Outside(updateLayerGradient(Store, selectedIds[1], g, TRUE),
             [name |-> "updateLayerGradient", layerId |-> selectedIds[1]])

ApiAddGradientStop(layerId, offset, color) ==
  /\ Use("api", MaxApiCalls)
  /\ Outside(addGradientStop(Store, layerId, offset, color),
             [name |-> "addGradientStop", layerId |-> layerId, offset |-> offset, color |-> color,
              id |-> generateId(idCount)])

ApiRemoveGradientStop(layerId, stopId) ==
  /\ Use("api", MaxApiCalls)
  /\ Outside(removeGradientStop(Store, layerId, stopId),
             [name |-> "removeGradientStop", layerId |-> layerId, stopId |-> stopId])

ApiUpdateGradientStop(layerId, stopId, updates) ==
  /\ Use("api", MaxApiCalls)
  /\ Outside(updateGradientStop(Store, layerId, stopId, updates),
             [name |-> "updateGradientStop", layerId |-> layerId, stopId |-> stopId,
              updates |-> updates])

ApiSmoothLayerGradient(layerId) ==
  /\ Use("api", MaxApiCalls)
  /\ Outside(smoothLayerGradient(Store, layerId),
             [name |-> "smoothLayerGradient", layerId |-> layerId])

(* App.handleKeyDown: Ctrl+Z / Ctrl+Shift+Z *)
Undo ==
  /\ Use("api", MaxApiCalls)
  /\ Outside(undo(Store), [name |-> "undo"])

Redo ==
  /\ Use("api", MaxApiCalls)
  /\ Outside(redo(Store), [name |-> "redo"])

(* InfiniteCanvas: hit test of a canvas point against the layers, topmost first *)
HitBox(l, canvasPos) ==
  /\ RLe(l.x, canvasPos.x) /\ RLe(canvasPos.x, RAdd(l.x, l.width))
  /\ RLe(l.y, canvasPos.y) /\ RLe(canvasPos.y, RAdd(l.y, l.height))
HitLayers(s, canvasPos) ==
  { i \in 1..Len(s.layerOrder) : HitBox(s.layers[s.layerOrder[i]], canvasPos) }
(* the same with the label strip above an artboard, as the pointer-down    *)
(* and the double click test it                                            *)
LabelHeight(l) == IF l.type = "artboard" THEN RDiv(R(24), viewport.zoom) ELSE R(0)
HitLabelled(l, canvasPos) ==
  /\ RLe(l.x, canvasPos.x) /\ RLe(canvasPos.x, RAdd(l.x, l.width))
  /\ RLe(RSub(l.y, LabelHeight(l)), canvasPos.y) /\ RLe(canvasPos.y, RAdd(l.y, l.height))
LabelledHits(s, canvasPos) ==
  { i \in 1..Len(s.layerOrder) : HitLabelled(s.layers[s.layerOrder[i]], canvasPos) }
Topmost(s, hits) == s.layerOrder[CHOOSE i \in hits : \A j \in hits : j <= i]
TopHit(s, canvasPos) == Topmost(s, HitLayers(s, canvasPos))

(* InfiniteCanvas.handleDoubleClick on empty canvas: a new white artboard *)
DoubleClickPos == Vec(R(1600), R(400))
NewArtboard(newId, canvasPos) ==
  [id |-> newId, type |-> "artboard",
   x |-> RSub(canvasPos.x, R(400)), y |-> RSub(canvasPos.y, R(300)),
   width |-> R(800), height |-> R(600), rotation |-> R(0), fill |-> Solid(White)]
AddLayer ==
  /\ Use("api", MaxApiCalls)
  /\ LabelledHits(Store, screenToCanvas(DoubleClickPos, viewport)) = {}
  /\ Outside([addLayer(Store, NewArtboard(generateId(idCount),
                                          screenToCanvas(DoubleClickPos, viewport)))
                EXCEPT !.idCount = idCount + 1],
             [name |-> "addLayer", id |-> generateId(idCount)])

(* InfiniteCanvas.handleDrop: a palette colour dropped on the canvas *)
DropOnLayer(s, layer, localPos, color) ==
  IF IsString(layer.fill)
  THEN [updateLayerGradient(s, layer.id,
          [type |-> "linear", angle |-> R(135),
           stops |-> << Stop(generateId(s.idCount), R(0), layer.fill.color),
                        Stop(generateId(s.idCount + 1), R(1), color) >>], TRUE)
          EXCEPT !.idCount = s.idCount + 2]
  ELSE addGradientStop(s, layer.id,
                       getGradientT(RMul(localPos.x, layer.width), RMul(localPos.y, layer.height),
                                    layer.fill, layer.width, layer.height),
                       color)

DropOnHit(s, client, hitId, color) ==
  [DropOnLayer(s, s.layers[hitId], getLocalPoint(client, viewport, s.layers[hitId]), color)
     EXCEPT !.selectedIds = << hitId >>]

DropAt(s, client, canvasPos, color) ==
  IF HitLayers(s, canvasPos) = {} THEN s ELSE DropOnHit(s, client, TopHit(s, canvasPos), color)

handleDrop(s, client, color) == DropAt(s, client, screenToCanvas(client, viewport), color)

DropExactOn(layer, m) ==
  ~IsString(layer.fill) => (TrigExact(layer.fill.angle) /\ ProjectionExact(layer.fill, layer, m.x, m.y))
DropExactHit(client, layer) ==
  DropExactOn(layer, Px(getLocalPoint(client, viewport, layer), layer))
DropExactAt(s, client, canvasPos) ==
  HitLayers(s, canvasPos) # {} => DropExactHit(client, s.layers[TopHit(s, canvasPos)])
DropExact(s, client) == DropExactAt(s, client, screenToCanvas(client, viewport))

DropColor(client, color) ==
  /\ Use("api", MaxApiCalls)
  /\ ~dragRef.active
  /\ DropExact(Store, client)
  /\ Outside(handleDrop(Store, client, color),
             [name |-> "drop", client |-> client, color |-> color, id |-> generateId(idCount)])

(* the popup's Delete Stop button is offered for a stop that is no endpoint *)
IsEndpoint(gradient, offset) ==
  gradient.type # "conic"
  /\ (RLt(RAbs(offset), Q(1, 1000)) \/ RLt(RAbs(RSub(offset, R(1))), Q(1, 1000)))

StopById(stops, id) == CHOOSE st \in { stops[i] : i \in 1..Len(stops) } : st.id = id

(* StopPopup: the Delete Stop button of the selected stop *)
DeleteStop ==
  /\ Use("downs", MaxDowns)
  /\ Rendered(Store)
  /\ interactionMode = "idle"
  /\ selectedStopId \in StopIds(layers[OverlayLayer].fill.stops)
  /\ ~IsEndpoint(layers[OverlayLayer].fill,
                 StopById(layers[OverlayLayer].fill.stops, selectedStopId).offset)
  /\ Handled(handleDeleteStop(Store, Overlay, selectedStopId),
             [name |-> "deleteStop", stopId |-> selectedStopId],
             [gesture EXCEPT !.pure = FALSE])

Pressed(r, target) ==
  Handled(r,
          [name |-> "pointerDown", type |-> target.type, id |-> target.id,
           client |-> target.client, before |-> dragRef],
          [phase |-> "down", fill0 |-> layers[OverlayLayer].fill, drag0 |-> r.o.dragRef,
           moves |-> 0, exceeded |-> FALSE, pure |-> TRUE])

PointerDown(target) ==
  /\ Use("downs", MaxDowns)
  /\ Rendered(Store)
  /\ TrigExact(layers[OverlayLayer].fill.angle)
  /\ Pressed(handlePointerDown(Store, Overlay, target.id, target.type, target.extraData,
                               target.client), target)

PointerMove(client) ==
  /\ Use("moves", MaxMoves)
  /\ Rendered(Store)
  /\ dragRef.active
  /\ MoveExact(Store, dragRef.state, client)
  /\ Handled(handlePointerMove(Store, Overlay, client),
             [name |-> "pointerMove", client |-> client],
             [gesture EXCEPT !.moves = @ + 1,
                             !.exceeded = @ \/ ExceedsThreshold(dragRef.startPos, client)])

PointerUp ==
  /\ Rendered(Store)
  /\ dragRef.active
  /\ Handled(handlePointerUp(Store, Overlay),
             [name |-> "pointerUp", state |-> dragRef.state, hasMoved |-> dragRef.hasMoved,
              fillBefore |-> layers[OverlayLayer].fill, id |-> generateId(idCount)],
             [gesture EXCEPT !.phase = "up"])
  /\ UNCHANGED used

(* ---------------------------------------------------------------------- *)
(* InfiniteCanvas: pressing, dragging and releasing a layer                *)
(* ---------------------------------------------------------------------- *)
(* the tree is mounted while every layer has all its keys: on a selected   *)
(* layer without a fill the render of GradientOverlay reads start of       *)
(* undefined and throws                                                    *)
LayerKeys == DOMAIN Layer("", 0, 0, 0, 0, INITIAL_GRADIENT)
Mounted(s) == \A id \in DOMAIN s.layers : DOMAIN s.layers[id] = LayerKeys

(* a canvas or handle event has run: s is the store it leaves, mode the    *)
(* interaction mode, c and rz the refs of the canvas and of the handles    *)
CanvasHandled(s, mode, c, rz, ev, begun) ==
  /\ Commit(s)
  /\ CommitOverlay([SelectionEffect(s, Overlay) EXCEPT !.interactionMode = mode])
  /\ canvas' = c
  /\ resizeRef' = rz
  /\ event' = ev
  /\ gesture' = [gesture EXCEPT !.pure = FALSE]
  /\ dragBegin' = begun

CanvasDownHit(client, hitId) ==
  CanvasHandled([Store EXCEPT !.selectedIds = << hitId >>], "dragging-layer",
                [isDragging |-> TRUE, dragTarget |-> hitId, dragStartScreenPos |-> client,
                 dragInitialLayerPos |-> Vec(layers[hitId].x, layers[hitId].y)],
                resizeRef,
                [name |-> "canvasPointerDown", client |-> client, hit |-> hitId],
                [phase |-> "dragging", kind |-> "move", id |-> hitId,
                 box |-> BoxOf(layers[hitId])])

CanvasDownMiss(client) ==
  CanvasHandled([Store EXCEPT !.selectedIds = << >>], "panning",
                [canvas EXCEPT !.isDragging = TRUE, !.dragTarget = "pan",
                               !.dragStartScreenPos = client],
                resizeRef,
                [name |-> "canvasPointerDown", client |-> client, hit |-> ""],
                NoDrag)

CanvasDownAt(client, hits) ==
  IF hits = {} THEN CanvasDownMiss(client) ELSE CanvasDownHit(client, Topmost(Store, hits))

(* handlePointerDown with the select tool and the primary button *)
CanvasPress(client) ==
  /\ Mounted(Store)
  /\ interactionMode = "idle"
  /\ CanvasDownAt(client, LabelledHits(Store, screenToCanvas(client, viewport)))

CanvasPointerDown(client) == Use("downs", MaxDowns) /\ CanvasPress(client)

DraggedTo(client) ==
  [x |-> RAdd(canvas.dragInitialLayerPos.x,
              RDiv(RSub(client.x, canvas.dragStartScreenPos.x), viewport.zoom)),
   y |-> RAdd(canvas.dragInitialLayerPos.y,
              RDiv(RSub(client.y, canvas.dragStartScreenPos.y), viewport.zoom))]

(* handlePointerMove while a layer is dragged; the moves of a pan change   *)
(* the viewport only, which is fixed here, and are left out                *)
CanvasPointerMove(client) ==
  /\ Use("moves", MaxMoves)
  /\ Mounted(Store)
  /\ canvas.isDragging
  /\ interactionMode = "dragging-layer"
  /\ canvas.dragTarget # ""
  /\ CanvasHandled(updateLayer(Store, canvas.dragTarget, DraggedTo(client), FALSE),
                   interactionMode, canvas, resizeRef,
                   [name |-> "canvasPointerMove", client |-> client],
                   dragBegin)

Released(s) ==
  IF interactionMode = "dragging-layer" /\ canvas.dragTarget # ""
  THEN updateLayer(s, canvas.dragTarget, NoKeys, TRUE)
  ELSE s

(* handlePointerUp, also bound to onPointerLeave *)
CanvasPointerUp ==
  /\ Mounted(Store)
  /\ canvas.isDragging
  /\ CanvasHandled(Released(Store), "idle",
                   [canvas EXCEPT !.isDragging = FALSE, !.dragTarget = ""], resizeRef,
                   [name |-> "canvasPointerUp", target |-> canvas.dragTarget],
                   IF dragBegin.phase = "dragging" THEN [dragBegin EXCEPT !.phase = "completed"]
                   ELSE NoDrag)
  /\ UNCHANGED used

(* ---------------------------------------------------------------------- *)
(* ResizeHandles: the eight handles of the one selected layer              *)
(* ---------------------------------------------------------------------- *)
HANDLES ==
  [n |-> Vec(Q(1, 2), R(0)), s |-> Vec(Q(1, 2), R(1)), e |-> Vec(R(1), Q(1, 2)),
   w |-> Vec(R(0), Q(1, 2)), ne |-> Vec(R(1), R(0)), nw |-> Vec(R(0), R(0)),
   se |-> Vec(R(1), R(1)), sw |-> Vec(R(0), R(1))]

(* handle.includes(side) *)
Includes(handle, side) ==
  CASE side = "n" -> handle \in {"n", "ne", "nw"}
    [] side = "s" -> handle \in {"s", "se", "sw"}
    [] side = "e" -> handle \in {"e", "ne", "se"}
    [] side = "w" -> handle \in {"w", "nw", "sw"}

(* selectedIds.length === 1, and `if (!layer) return null` *)
HandlesShown(s) == Len(s.selectedIds) = 1 /\ HasLayer(s, s.selectedIds[1])

(* where a handle is on the screen *)
HandleAt(layer, h) ==
  canvasToScreen(Vec(RAdd(layer.x, RMul(HANDLES[h].x, layer.width)),
                     RAdd(layer.y, RMul(HANDLES[h].y, layer.height))), viewport)

ResizeDownOn(h, layer, start) ==
  CanvasHandled(saveSnapshot(Store), "resizing", canvas,
                [active |-> TRUE, handle |-> h, startX |-> start.x, startY |-> start.y,
                 initial |-> [x |-> layer.x, y |-> layer.y, width |-> layer.width,
                              height |-> layer.height, rotation |-> layer.rotation]],
                [name |-> "resizePointerDown", handle |-> h, layerId |-> layer.id,
                 past |-> Len(history.past)],
                [phase |-> "dragging", kind |-> "resize", id |-> layer.id, box |-> BoxOf(layer)])

(* handlePointerDown of a handle; the pointer is free, no other drag runs *)
ResizePress(h) ==
  /\ Mounted(Store)
  /\ HandlesShown(Store)
  /\ interactionMode = "idle"
  /\ ResizeDownOn(h, layers[selectedIds[1]], HandleAt(layers[selectedIds[1]], h))

ResizePointerDown(h) == Use("downs", MaxDowns) /\ ResizePress(h)

WidthOf(initial, handle, dxLocal) ==
  IF Includes(handle, "w") THEN RMax(R(1), RSub(initial.width, dxLocal))
  ELSE IF Includes(handle, "e") THEN RMax(R(1), RAdd(initial.width, dxLocal))
  ELSE initial.width
HeightOf(initial, handle, dyLocal) ==
  IF Includes(handle, "n") THEN RMax(R(1), RSub(initial.height, dyLocal))
  ELSE IF Includes(handle, "s") THEN RMax(R(1), RAdd(initial.height, dyLocal))
  ELSE initial.height
(* the shift of the origin, back in global space *)
ShiftOf(initial, handle, local) ==
  Vec(RAdd(IF Includes(handle, "w") THEN RMul(local.x, CosDeg(initial.rotation)) ELSE R(0),
           IF Includes(handle, "n") THEN RNeg(RMul(local.y, SinDeg(initial.rotation))) ELSE R(0)),
      RAdd(IF Includes(handle, "w") THEN RMul(local.x, SinDeg(initial.rotation)) ELSE R(0),
           IF Includes(handle, "n") THEN RMul(local.y, CosDeg(initial.rotation)) ELSE R(0)))
ResizedBy(initial, handle, local, shift) ==
  [x |-> RAdd(initial.x, shift.x), y |-> RAdd(initial.y, shift.y),
   width |-> WidthOf(initial, handle, local.x), height |-> HeightOf(initial, handle, local.y)]
ResizedLocal(initial, handle, local) ==
  ResizedBy(initial, handle, local, ShiftOf(initial, handle, local))
Resized(ref, client) ==
  ResizedLocal(ref.initial, ref.handle,
               Rotated(RDiv(RSub(client.x, ref.startX), viewport.zoom),
                       RDiv(RSub(client.y, ref.startY), viewport.zoom),
                       CosDeg(RNeg(ref.initial.rotation)), SinDeg(RNeg(ref.initial.rotation))))

(* handlePointerMove of a handle *)
ResizePointerMove(client) ==
  /\ Use("moves", MaxMoves)
  /\ Mounted(Store)
  /\ HandlesShown(Store)
  /\ resizeRef.active
  /\ TrigExact(resizeRef.initial.rotation)
  /\ CanvasHandled(updateLayer(Store, selectedIds[1], Resized(resizeRef, client), FALSE),
                   interactionMode, canvas, resizeRef,
                   [name |-> "resizePointerMove", client |-> client],
                   dragBegin)

(* handlePointerUp of a handle; the event then reaches the canvas, whose   *)
(* handlePointerUp returns at once because isDragging is false             *)
ResizePointerUp ==
  /\ Mounted(Store)
  /\ HandlesShown(Store)
  /\ resizeRef.active
  /\ ~canvas.isDragging
  /\ CanvasHandled(Store, "idle", canvas, NullResize,
                   [name |-> "resizePointerUp", handle |-> resizeRef.handle],
                   IF dragBegin.phase = "dragging" THEN [dragBegin EXCEPT !.phase = "completed"]
                   ELSE NoDrag)
  /\ UNCHANGED used

CanvasPositions == {Vec(R(400), R(400)), Vec(R(400), R(64)), DoubleClickPos}
CanvasMoveInputs == CanvasPositions \cup {Vec(R(480), R(440))}
ResizeDeltas == {Vec(R(0), R(0)), Vec(R(40), R(-80)), Vec(R(-2000), R(-2000)), Vec(R(2000), R(2000))}
ResizeMoveInputs ==
  { Vec(RAdd(resizeRef.startX, d.x), RAdd(resizeRef.startY, d.y)) : d \in ResizeDeltas }

CanvasPointerDowns == \E p \in CanvasPositions : CanvasPointerDown(p)
CanvasPointerMoves == \E p \in CanvasMoveInputs : CanvasPointerMove(p)
ResizePointerDowns == \E h \in DOMAIN HANDLES : ResizePointerDown(h)
ResizePointerMoves == \E p \in ResizeMoveInputs : ResizePointerMove(p)

MoveInputs == PointerPositions \cup {dragRef.startPos, Nudge(dragRef.startPos)}

AddStops == \E l \in LayerIds, x \in OffsetInputs : ApiAddGradientStop(l, x, White)
RemoveStops == \E l \in LayerIds, id \in KnownStopIds : ApiRemoveGradientStop(l, id)
UpdateStops ==
  \E l \in LayerIds, id \in KnownStopIds, x \in OffsetInputs :
    ApiUpdateGradientStop(l, id, [offset |-> x])
SmoothGradients == \E l \in LayerIds : ApiSmoothLayerGradient(l)
DropColors == \E p \in {Vec(R(160), R(400)), DoubleClickPos} : DropColor(p, Black)
ApplyGradients == \E g \in GradientInputs : ApplyGradient(g)
PointerDowns ==
  /\ used.downs < MaxDowns
  /\ Rendered(Store)
  /\ TrigExact(layers[OverlayLayer].fill.angle)
  /\ \E t \in Targets(layers[OverlayLayer].fill, layers[OverlayLayer]) : PointerDown(t)
PointerMoves == used.moves < MaxMoves /\ \E p \in MoveInputs : PointerMove(p)

(* direct calls of the store's operations, the undo keys, a new artboard,  *)
(* a palette colour dropped on the canvas                                  *)
NextStore ==
  \/ AddStops
  \/ RemoveStops
  \/ UpdateStops
  \/ SmoothGradients
  \/ Undo
  \/ Redo
  \/ AddLayer
  \/ DropColors

(* the pointer on the toolbar and on the overlay's handles *)
NextOverlay ==
  \/ ApplyGradients
  \/ DeleteStop
  \/ PointerDowns
  \/ PointerMoves
  \/ PointerUp

(* store calls and gestures interleaved, MaxSteps counted steps in all *)
Steps == used.api + used.loads + used.downs + used.moves
Capped == Steps < MaxSteps

Next ==
  \/ Capped /\ AddStops
  \/ Capped /\ RemoveStops
  \/ Capped /\ UpdateStops
  \/ Capped /\ SmoothGradients
  \/ Capped /\ Undo
  \/ Capped /\ Redo
  \/ Capped /\ AddLayer
  \/ Capped /\ DropColors
  \/ Capped /\ ApplyGradients
  \/ Capped /\ DeleteStop
  \/ Capped /\ PointerDowns
  \/ Capped /\ PointerMoves
  \/ PointerUp

(* the pointer on the canvas and on the resize handles, the undo keys and  *)
(* a double click on empty canvas                                          *)
NextCanvas ==
  \/ CanvasPointerDowns
  \/ CanvasPointerMoves
  \/ CanvasPointerUp
  \/ ResizePointerDowns
  \/ ResizePointerMoves
  \/ ResizePointerUp
  \/ Mounted(Store) /\ Undo
  \/ Mounted(Store) /\ Redo
  \/ Mounted(Store) /\ interactionMode = "idle" /\ AddLayer

(* a long session of presses and releases that move nothing, with the     *)
(* undo keys: every press of a handle and every release of a layer takes   *)
(* a snapshot, so the history fills up and overflows                       *)
PressLayer == CanvasPress(Vec(R(400), R(400))) /\ UNCHANGED used
PressHandle == ResizePress("se") /\ UNCHANGED used
UndoKey == Outside(undo(Store), [name |-> "undo"]) /\ UNCHANGED used
RedoKey == Outside(redo(Store), [name |-> "redo"]) /\ UNCHANGED used

NextHistory ==
  \/ PressLayer
  \/ CanvasPointerUp
  \/ PressHandle
  \/ ResizePointerUp
  \/ UndoKey
  \/ RedoKey

Spec == Init /\ [][Next]_vars
SpecHistory == Init /\ [][NextHistory]_vars
SpecCanvas == Init /\ [][NextCanvas]_vars
SpecStore == Init /\ [][NextStore]_vars
SpecOverlay == Init /\ [][NextOverlay]_vars

(* ---------------------------------------------------------------------- *)
(* The rendering functions on their own: a call is drawn at the start and  *)
(* one step applies the function to it; event holds call and result.       *)
(* ---------------------------------------------------------------------- *)
MaxStops == 3
CallOffsets == { R(0), Q(1, 4), Q(1, 2), R(1) }
CallMidpoints == { NoNum, Some(Q(1, 4)), Some(Q(3, 4)) }

(* stop lists as a caller may store them: any order of offsets, the first  *)
(* stop's midpoint set or not                                              *)
CallStop(i, offset, midpoint) ==
  [id |-> "s" \o ToString(i), offset |-> offset, color |-> INITIAL_PALETTE[((i - 1) % Len(INITIAL_PALETTE)) + 1],
   opacity |-> R(1), midpoint |-> midpoint]

CallStopLists ==
  { [i \in 1..n |-> CallStop(i, offs[i], IF i = 1 THEN mid ELSE NoNum)] :
      n \in {MaxStops - 1, MaxStops}, offs \in [1..MaxStops -> CallOffsets], mid \in CallMidpoints }

Call(fn, args) == [name |-> "call", fn |-> fn, args |-> args]
Called(fn) == event.name = "call" /\ event.fn = fn
Returned(fn, args, result) ==
  /\ event' = [name |-> fn, args |-> args, result |-> result]
  /\ UNCHANGED << layers, layerOrder, selectedIds, history, interactionMode, idCount,
                  dragRef, selectedStopId, isRotating, canvas, resizeRef, gesture,
                  dragBegin, used >>

ProcessStopsCalls == { Call("processStops", [stops |-> s]) : s \in CallStopLists }
ProcessStops == Called("processStops") /\ Returned("processStops", event.args, processStops(event.args.stops))

(* stop lists around the two thresholds of fixGradientBanding: gaps below, *)
(* at and above 0.005, colour distances below and above 0.05               *)
BandingOffsets == { R(0), Q(1, 250), Q(1, 200), R(1) }
BandingColors == { Black, Hex(5, 5, 2), Hex(5, 5, 3), White }
BandingStopLists ==
  { [i \in 1..n |-> Stop("s" \o ToString(i), offs[i], cols[i])] :
      n \in 1..MaxStops, offs \in [1..MaxStops -> BandingOffsets],
      cols \in [1..MaxStops -> BandingColors] }

FixGradientBandingCalls ==
  { Call("fixGradientBanding", [stops |-> s, idIndex |-> 0]) : s \in BandingStopLists }
FixGradientBanding ==
  /\ Called("fixGradientBanding")
  /\ Returned("fixGradientBanding", event.args,
              fixGradientBanding(event.args.stops, event.args.idIndex))

CallPositions == { R(0), Q(1, 8), Q(1, 4), Q(1, 2), Q(3, 4), R(1) }
GetGradientColorAtCalls ==
  { Call("getGradientColorAt", [t |-> t, stops |-> s]) : t \in CallPositions, s \in CallStopLists }
GetGradientColorAt ==
  /\ Called("getGradientColorAt")
  /\ Returned("getGradientColorAt", event.args, getGradientColorAt(event.args.t, event.args.stops))

(* hex strings of the three forms: #000000, #FFFFFF, #123456, #ABC,      *)
(* #12345680, #FEDCBAFF, #FEDCBAFE                                         *)
CallColors ==
  { << 0, 0, 0, 0, 0, 0 >>, << 15, 15, 15, 15, 15, 15 >>, << 1, 2, 3, 4, 5, 6 >>,
    << 10, 11, 12 >>, << 1, 2, 3, 4, 5, 6, 8, 0 >>, << 15, 14, 13, 12, 11, 10, 15, 15 >>,
    << 15, 14, 13, 12, 11, 10, 15, 14 >> }
CallFactors == { R(0), Q(1, 4), Q(1, 2), Q(3, 4), R(1) }
InterpolateColorCalls ==
  { Call("interpolateColor", [color1 |-> c1, color2 |-> c2, factor |-> f]) :
      c1 \in CallColors, c2 \in CallColors, f \in CallFactors }
InterpolateColor ==
  /\ Called("interpolateColor")
  /\ Returned("interpolateColor", event.args,
              interpolateColorString(event.args.color1, event.args.color2, event.args.factor))

(* gradients whose axis has length zero, two whose axis has not, a radial  *)
(* gradient without a radius and a linear one with a start and no end     *)
CallStops == << Stop("s1", R(0), Black), Stop("s2", R(1), White) >>
CallGradients ==
  { [Gradient("linear", R(90), CallStops) EXCEPT !.start = Some(p), !.end = Some(q)] :
      p \in { Vec(Q(1, 2), Q(1, 2)), Vec(Q(1, 4), Q(1, 2)) }, q \in { Vec(Q(1, 2), Q(1, 2)) } }
  \cup { [Gradient("radial", a, CallStops) EXCEPT !.radius = Some(r)] :
           a \in { R(0), R(90) }, r \in { R(0), Q(1, 4) } }
  \cup { Gradient("radial", R(0), CallStops),
         [Gradient("linear", R(90), CallStops) EXCEPT !.start = Some(Vec(Q(1, 4), Q(1, 4)))] }
CallCoordinates == { R(0 - 100), R(0), R(400), R(600), R(1300) }
ProjectionArgs ==
  { [gradient |-> g, mx |-> mx, my |-> my] :
      g \in CallGradients, mx \in CallCoordinates, my \in CallCoordinates }

GetProjectionTCalls == { Call("getProjectionT", a) : a \in ProjectionArgs }
GetProjectionT ==
  /\ Called("getProjectionT")
  /\ Returned("getProjectionT", event.args,
              getProjectionT(event.args.gradient, layers[OverlayLayer], event.args.mx, event.args.my))

GetGradientTCalls == { Call("getGradientT", a) : a \in ProjectionArgs }
GetGradientT ==
  /\ Called("getGradientT")
  /\ Returned("getGradientT", event.args,
              getGradientT(event.args.mx, event.args.my, event.args.gradient,
                           layers[OverlayLayer].width, layers[OverlayLayer].height))

(* srgbEncodedToOklch then oklchToHex, on the bytes of a 6-digit hex colour *)
CallBytes == {0, 5, 128, 255}
HexRoundTripCalls ==
  { Call("hexRoundTrip", Rgb(r, g, b)) : r \in CallBytes, g \in CallBytes, b \in CallBytes }
HexRoundTrip ==
  Called("hexRoundTrip")
  /\ Returned("hexRoundTrip", event.args,
              [lch |-> srgbEncodedToOklch(event.args),
               hex |-> oklchToHex(srgbEncodedToOklch(event.args))])

InitCalls ==
  /\ InitProgram
  /\ \/ event \in ProcessStopsCalls
     \/ event \in FixGradientBandingCalls
     \/ event \in GetGradientColorAtCalls
     \/ event \in InterpolateColorCalls
     \/ event \in GetProjectionTCalls
     \/ event \in GetGradientTCalls
     \/ event \in HexRoundTripCalls

NextCalls ==
  \/ ProcessStops
  \/ FixGradientBanding
  \/ GetGradientColorAt
  \/ InterpolateColor
  \/ GetProjectionT
  \/ GetGradientT
  \/ HexRoundTrip

SpecCalls == InitCalls /\ [][NextCalls]_vars

(* ---------------------------------------------------------------------- *)
(* clampOklchToSrgbGamut step by step: a call is drawn at the start, one   *)
(* step enters the function, one step runs one pass of the for loop, one   *)
(* step leaves the loop and returns.  The scheduler is the JavaScript      *)
(* engine running the function to its end, hence the weak fairness.        *)
(* ---------------------------------------------------------------------- *)
ClampLightness == {0, LinScale \div 4, LinScale \div 2, 3 * (LinScale \div 4), LinScale}
ClampChromas == {0, LinScale \div 20, LinScale \div 5, 2 * (LinScale \div 5)}
ClampHues ==
  {Hue(0, LinScale, 0), Hue(30, 86602540, LinScale \div 2), Hue(90, 0, LinScale),
   Hue(180, -LinScale, 0), Hue(225, -70710678, -70710678), Hue(270, 0, -LinScale)}
ClampIters == {0, 3, DefaultMaxIter}
ClampCalls ==
  { Call("clampOklchToSrgbGamut", [lch |-> OkLch(L, C, H), maxIter |-> n]) :
      L \in ClampLightness, C \in ClampChromas, H \in ClampHues, n \in ClampIters }

Became(ev) ==
  /\ event' = ev
  /\ UNCHANGED << layers, layerOrder, selectedIds, history, interactionMode, idCount,
                  dragRef, selectedStopId, isRotating, canvas, resizeRef, gesture,
                  dragBegin, used >>

ClampEnter == Called("clampOklchToSrgbGamut") /\ Became(ClampEntered(event.args))
ClampIterate ==
  /\ event.name = "clampLoop"
  /\ event.i < event.args.maxIter
  /\ Became(ClampPass(event, (event.lo + event.hi) \div 2))
ClampLeave ==
  /\ event.name = "clampLoop"
  /\ ~(event.i < event.args.maxIter)
  /\ Became(ClampLeft(event))

InitClamp == InitProgram /\ event \in ClampCalls
NextClamp ==
  \/ ClampEnter
  \/ ClampIterate
  \/ ClampLeave
SpecClamp == InitClamp /\ [][NextClamp]_vars /\ WF_vars(NextClamp)

(* ---------------------------------------------------------------------- *)
(* Properties                                                              *)
(* ---------------------------------------------------------------------- *)
GradientLayers == { id \in DOMAIN layers : ~IsString(layers[id].fill) }
StopsOf(id) == layers[id].fill.stops

(* C1: stop floor.  Whatever sequence of addGradientStop,                  *)
(* removeGradientStop, updateGradientStop, smoothLayerGradient and overlay *)
(* gestures has run, every gradient still has at least two stops; in       *)
(* particular removeGradientStop never takes a gradient below two stops.   *)
StopFloor == \A id \in GradientLayers : Len(StopsOf(id)) >= 2

(* a removal that was asked of a gradient with two stops and refused *)
StopFloorWitness ==
  /\ event.name = "removeGradientStop"
  /\ event.layerId \in GradientLayers
  /\ Len(StopsOf(event.layerId)) = 2
  /\ event.stopId \in StopIds(StopsOf(event.layerId))

(* C2: a call of updateGradientStop that changes an offset, whether made   *)
(* directly or by a pointer-move of a stop drag, leaves the stored stop    *)
(* list sorted by ascending offset and holding exactly the stop ids it     *)
(* held before the call.                                                   *)
UpdateStopStep ==
  \/ event'.name = "updateGradientStop" /\ event'.layerId \in GradientLayers
        /\ "offset" \in DOMAIN event'.updates /\ used'.api = used.api + 1
  \/ event'.name = "pointerMove" /\ dragRef.state.type = "move-stop"
        /\ used'.moves = used.moves + 1
UpdatedLayer == IF event'.name = "pointerMove" THEN OverlayLayer ELSE event'.layerId
SortedSameIds(old, new) == IsSortedByOffset(new) /\ StopIds(new) = StopIds(old)
UpdateKeepsSortedIds ==
  [][UpdateStopStep => SortedSameIds(layers[UpdatedLayer].fill.stops,
                                     layers'[UpdatedLayer].fill.stops)]_vars

(* init-1 moved from offset 0 to offset 1 now follows init-2 and init-3 *)
UpdateKeepsSortedIdsWitness ==
  /\ event.name = "updateGradientStop"
  /\ event.layerId = OverlayLayer
  /\ event.stopId = "init-1"
  /\ event.updates.offset = R(1)
  /\ Len(StopsOf(OverlayLayer)) = 3
  /\ StopsOf(OverlayLayer)[3].id = "init-1"
  /\ StopsOf(OverlayLayer)[3].offset = R(1)

(* C3: addGradientStop on a gradient of n stops leaves n + 1 stops sorted  *)
(* by offset: the n previous stops unchanged and in their previous         *)
(* relative order, and one new stop with the given offset and colour,      *)
(* opacity 1 and an id no previous stop has; the new stop comes after      *)
(* every previous stop that has the same offset.                           *)
NewStopAt(new, i, ev) ==
  /\ new[i].offset = ev.offset
  /\ new[i].color = ev.color
  /\ new[i].opacity = R(1)
  /\ \A j \in 1..Len(new) : (j # i /\ new[j].offset = ev.offset) => j < i
AddedOne(old, new, ev) ==
  /\ Len(new) = Len(old) + 1
  /\ IsSortedByOffset(new)
  /\ ev.id \notin StopIds(old)
  /\ FilterOutId(new, ev.id) = old
  /\ \E i \in 1..Len(new) : new[i].id = ev.id /\ NewStopAt(new, i, ev)
AddStopStep ==
  /\ event'.name = "addGradientStop"
  /\ event'.layerId \in GradientLayers
  /\ used'.api = used.api + 1
AddInsertsOne ==
  [][AddStopStep => AddedOne(layers[event'.layerId].fill.stops,
                             layers'[event'.layerId].fill.stops, event')]_vars

(* a stop added at offset 1/2, where init-2 already is, follows init-2 *)
AddInsertsOneWitness ==
  /\ event.name = "addGradientStop"
  /\ event.layerId = OverlayLayer
  /\ event.offset = Q(1, 2)
  /\ Len(StopsOf(OverlayLayer)) = 4
  /\ StopsOf(OverlayLayer)[2].id = "init-2"
  /\ StopsOf(OverlayLayer)[3].id = event.id

(* C4: a rejected operation is a no-op.  removeGradientStop on a gradient  *)
(* of at most two stops, and addGradientStop, removeGradientStop or        *)
(* smoothLayerGradient on a solid or missing layer, leave layers,          *)
(* layerOrder and the history's past and future as they were.              *)
OnNoGradient(ev) == ev.layerId \notin GradientLayers
RejectedStep ==
  /\ used'.api = used.api + 1
  /\ \/ event'.name = "removeGradientStop"
           /\ (OnNoGradient(event') \/ Len(StopsOf(event'.layerId)) <= 2)
     \/ event'.name \in {"addGradientStop", "smoothLayerGradient"} /\ OnNoGradient(event')
RejectedIsNoOp ==
  [][RejectedStep => (layers' = layers /\ layerOrder' = layerOrder /\ history' = history)]_vars

(* C5: a pointer-down that arrives while a gesture is active is rejected:  *)
(* the drag record (kind, frozen parameters, start position, moved flag)   *)
(* stays as it was.                                                        *)
PressWhileActive ==
  /\ event'.name = "pointerDown"
  /\ used'.downs = used.downs + 1
  /\ dragRef.active
SecondPressRejected == [][PressWhileActive => dragRef' = dragRef]_vars

(* C6: click against drag.  When no pointer-move of a gesture on a handle  *)
(* went beyond the threshold, the gradient after the release is the        *)
(* gradient of the pointer-down, and a pressed stop handle is the selected *)
(* stop.                                                                   *)
StopHandleStates == {"move-stop", "move-start", "move-end"}
ReleasedClick ==
  /\ event.name = "pointerUp"
  /\ ~gesture.exceeded
  /\ event.state.type # "potential-stop"
ClickKeepsGradient ==
  ReleasedClick =>
    /\ layers[OverlayLayer].fill = gesture.fill0
    /\ event.state.type \in StopHandleStates => selectedStopId = event.state.id

(* C7: path independence.  After any run of pointer-moves of one gesture   *)
(* the gradient, the order of its stops included, is the gradient that a   *)
(* single pointer-move to the last position gives from the gradient and    *)
(* the drag record of the pointer-down.                                    *)
FillAfter(s) == s.layers[OverlayLayer].fill
DirectMove(s0, drag0, client) == FillAfter(MoveStore(s0, drag0.state, client))
DirectFill ==
  DirectMove([Store EXCEPT !.layers[OverlayLayer].fill = gesture.fill0], gesture.drag0, event.client)
MovedInGesture == event.name = "pointerMove" /\ gesture.pure /\ gesture.phase = "down"
PathIndependent == MovedInGesture => layers[OverlayLayer].fill = DirectFill

(* the same gradient but for the order of stops that share an offset *)
StopSet(fill) == { fill.stops[i] : i \in 1..Len(fill.stops) }
SameUpToTies(f, g) ==
  /\ [f EXCEPT !.stops = << >>] = [g EXCEPT !.stops = << >>]
  /\ Len(f.stops) = Len(g.stops)
  /\ StopSet(f) = StopSet(g)
  /\ IsSortedByOffset(f.stops) /\ IsSortedByOffset(g.stops)
PathIndependentUpToTies ==
  MovedInGesture => SameUpToTies(layers[OverlayLayer].fill, DirectFill)

(* a second move has brought a dragged stop onto another stop's offset,    *)
(* in another order than a single move gives                               *)
PathIndependentWitness ==
  /\ MovedInGesture
  /\ gesture.moves = 2
  /\ dragRef.state.type = "move-stop"
  /\ layers[OverlayLayer].fill # gesture.fill0
  /\ layers[OverlayLayer].fill # DirectFill

(* C8: click to add.  The release of a press on the gradient line adds     *)
(* exactly one stop, at the press's projected position and with the colour *)
(* sampled there, if and only if no pointer-move of the gesture went       *)
(* beyond the threshold; the moved flag, once set by a pointer-move, stays *)
(* set for the rest of the gesture, a return to the press point included.  *)
(* The gesture is the one of the drag record: it starts at the pointer-    *)
(* down that wrote the record (see C5 for a pointer-down that replaces it) *)
(* and ends at the pointer-up.                                             *)
PressedT(fill, layer, client) ==
  Clamp(Q(1, 100), Q(99, 100),
        getProjectionT(fill, layer, Px(getLocalPoint(client, viewport, layer), layer).x,
                       Px(getLocalPoint(client, viewport, layer), layer).y))
ClickStop(old, t, id) == [id |-> id, offset |-> t, color |-> getGradientColorAt(t, old)]
LineReleased(old, new, t, id) ==
  IF gesture.exceeded THEN new = old ELSE AddedOne(old, new, ClickStop(old, t, id))
LineReleaseStep == event'.name = "pointerUp" /\ dragRef.state.type = "potential-stop"
MoveStep == event'.name = "pointerMove" /\ used'.moves = used.moves + 1
FlagFollowsGesture == dragRef'.active => (dragRef'.hasMoved <=> gesture'.exceeded)
HandlesAbout(fill, layer, state) ==
  /\ IsSet(fill.start) /\ IsSet(fill.end)
  /\ MidPoint(Px(fill.start.v, layer), Px(fill.end.v, layer)) = state.center
  /\ DistSq(Px(fill.start.v, layer), Px(fill.end.v, layer)) = RMul(state.currentLen, state.currentLen)
AngleOnly(old, new) ==
  /\ ~IsSet(new.start) /\ ~IsSet(new.end)
  /\ new = [old EXCEPT !.angle = new.angle]
RotateKept(old, new, layer, state) ==
  IF state.isPointBased THEN HandlesAbout(new, layer, state)
  ELSE (~IsSet(old.start) /\ ~IsSet(old.end)) => AngleOnly(old, new)
RotateStep ==
  /\ MoveStep
  /\ dragRef.state.type = "rotate"
  /\ layers[OverlayLayer].fill.type = "linear"
RotateKeepsRepresentation ==
  [][RotateStep => RotateKept(layers[OverlayLayer].fill, layers'[OverlayLayer].fill,
                              layers[OverlayLayer], dragRef.state)]_vars

(* a gradient with explicit handles turned to another angle *)
RotateKeepsRepresentationWitness ==
  /\ event.name = "pointerMove"
  /\ dragRef.state.type = "rotate"
  /\ dragRef.state.isPointBased
  /\ layers[OverlayLayer].fill.angle # gesture.fill0.angle
  /\ layers[OverlayLayer].fill.start # gesture.fill0.start

(* C10: projection boundedness.  The offset written by a move-stop drag,   *)
(* by a click on the gradient line and by a colour dropped on a gradient   *)
(* lies in [0, 1] for a linear or radial gradient, and in [0, 1) for a     *)
(* conic gradient.                                                         *)
InUnit(fill, x) ==
  /\ x.d # 0
  /\ RLe(R(0), x)
  /\ IF fill.type = "conic" THEN RLt(x, R(1)) ELSE RLe(x, R(1))
WrittenStops ==
  IF event.name = "pointerMove" /\ dragRef.state.type = "move-stop" THEN {dragRef.state.id}
  ELSE IF event.name = "pointerUp" /\ event.state.type = "potential-stop" THEN {event.id}
  ELSE IF event.name = "drop" THEN {event.id}
  ELSE {}
StopsInUnit(fill, ids) ==
  \A i \in 1..Len(fill.stops) : fill.stops[i].id \in ids => InUnit(fill, fill.stops[i].offset)
ProjectionBounded == \A id \in GradientLayers : StopsInUnit(layers[id].fill, WrittenStops)

(* a stop dragged past the start of the axis is held at offset 1/100 *)
ProjectionBoundedWitness ==
  /\ event.name = "pointerMove"
  /\ dragRef.state.type = "move-stop"
  /\ \E i \in 1..Len(StopsOf(OverlayLayer)) :
        /\ StopsOf(OverlayLayer)[i].id = dragRef.state.id
        /\ StopsOf(OverlayLayer)[i].offset = Q(1, 100)

(* C11: the pointer-moves of a drag are not snapshotted one by one: the    *)
(* number of history entries a press-move-release gesture adds does not    *)
(* depend on how many pointer-moves it has, so a pointer-move that is not  *)
(* the first of its gesture adds none.                                     *)
DragStates == {"rotate", "move-center", "move-start", "move-end", "move-stop", "move-midpoint"}
LaterMoveStep ==
  /\ MoveStep
  /\ gesture.pure
  /\ gesture.moves >= 1
  /\ dragRef.state.type \in DragStates
LaterMovesAddNoHistory == [][LaterMoveStep => history'.past = history.past]_vars

(* C12: undo capture at the gesture's boundaries.  After a completed drag  *)
(* that changed the gradient, one undo gives the layer the gradient it had *)
(* when the gesture began.                                                 *)
CompletedDrag ==
  /\ event.name = "pointerUp"
  /\ gesture.pure
  /\ event.state.type \in DragStates
  /\ layers[OverlayLayer].fill # gesture.fill0
UndoRestoresGestureStart ==
  CompletedDrag => FillAfter(undo(Store)) = JsonFill(gesture.fill0)

OverlayAxisIsRendererAxis ==
  \A id \in GradientLayers :
    layers[id].fill.type = "linear" =>
      /\ renderStart(layers[id].fill) = CoordsStart(RendererCoords(layers[id].fill))
      /\ renderEnd(layers[id].fill) = CoordsEnd(RendererCoords(layers[id].fill))

(* C15: whatever order the stop list is stored in, the stops the renderer  *)
(* emits (processStops, injected midpoint stops included) ascend by offset *)
(* and the stop after which a midpoint stop is injected is followed in the *)
(* list by its successor in offset order.                                  *)
SuccessorInOffsetOrder(stops, sorted, i) ==
  \E j \in 1..(Len(sorted) - 1) : sorted[j].id = stops[i].id /\ sorted[j + 1].id = stops[i + 1].id
RendererEmitsSorted ==
  event.name = "processStops" =>
    /\ IsSortedByOffset(event.result)
    /\ \A i \in 1..(Len(event.args.stops) - 1) :
         SuccessorInOffsetOrder(event.args.stops, SortByOffset(event.args.stops), i)

(* C16: fixGradientBanding puts exactly 7 stops, at the 7 interior points  *)
(* of 8 equal sub-intervals, between every two neighbours in offset order  *)
(* whose gap is at least 0.005 and whose sRGB channel-sum distance is at   *)
(* least 0.05, and nothing between other neighbours: n stops with q such   *)
(* pairs become n + 7q, black at 0 and white at 1 become 9.                *)
Qualifies(a, b) ==
  /\ RLe(Q(5, 1000), RSub(b.offset, a.offset))
  /\ 20 * (Abs(a.color.r - b.color.r) + Abs(a.color.g - b.color.g) + Abs(a.color.b - b.color.b)) >= 255
QualifyingBefore(sorted, i) == { j \in 1..(i - 1) : Qualifies(sorted[j], sorted[j + 1]) }
PlaceOf(sorted, i) == i + 7 * Cardinality(QualifyingBefore(sorted, i))
EighthsAfter(sorted, result, i) ==
  \A k \in 1..7 :
    result[PlaceOf(sorted, i) + k].offset =
      RAdd(sorted[i].offset, RMul(RSub(sorted[i + 1].offset, sorted[i].offset), Q(k, 8)))
SevenPerPair(sorted, result) ==
  /\ Len(result) = Len(sorted) + 7 * Cardinality(QualifyingBefore(sorted, Len(sorted)))
  /\ \A i \in 1..Len(sorted) : result[PlaceOf(sorted, i)] = sorted[i]
  /\ \A i \in 1..(Len(sorted) - 1) :
       Qualifies(sorted[i], sorted[i + 1]) => EighthsAfter(sorted, result, i)
BandingInsertsSeven ==
  event.name = "fixGradientBanding" => SevenPerPair(SortByOffset(event.args.stops), event.result)

(* black at 0 and white at 1 have become 9 stops *)
BandingInsertsSevenWitness ==
  /\ event.name = "fixGradientBanding"
  /\ event.args.stops = << Stop("s1", R(0), Black), Stop("s2", R(1), White) >>
  /\ Len(event.result) = 9

(* C17: every stop given to fixGradientBanding is in its result unchanged  *)
(* and in offset order, every other stop of the result has an id that no   *)
(* given stop has and an offset strictly between the given stops around    *)
(* it, and the result ascends by offset.                                   *)
Given(ids, s) == s.id \in ids
Bracketed(result, ids, p) ==
  \E q \in 1..(p - 1), r \in (p + 1)..Len(result) :
    /\ Given(ids, result[q]) /\ Given(ids, result[r])
    /\ \A x \in (q + 1)..(r - 1) : ~Given(ids, result[x])
    /\ RLt(result[q].offset, result[p].offset)
    /\ RLt(result[p].offset, result[r].offset)
OriginalsKept(stops, result, ids) ==
  /\ SelectSeq(result, LAMBDA s : Given(ids, s)) = SortByOffset(stops)
  /\ \A p \in 1..Len(result) : Given(ids, result[p]) \/ Bracketed(result, ids, p)
  /\ IsSortedByOffset(result)
BandingKeepsOriginals ==
  event.name = "fixGradientBanding" =>
    OriginalsKept(event.args.stops, event.result, StopIds(event.args.stops))

(* three stops stored out of order, both pairs smoothed *)
BandingKeepsOriginalsWitness ==
  /\ event.name = "fixGradientBanding"
  /\ ~IsSortedByOffset(event.args.stops)
  /\ Len(event.result) = MaxStops + 7 * (MaxStops - 1)

(* C18: getGradientColorAt looks t up in the stops sorted by offset: the   *)
(* first stop's colour at or before the first offset, the last stop's at   *)
(* or after the last offset, and in between the interpolateColor blend of  *)
(* the first pair of neighbours that has t between its offsets, at the     *)
(* fraction (t - left) / (right - left), or the left colour if that pair   *)
(* has zero width.                                                         *)
Brackets(sorted, t, i) == RLe(sorted[i].offset, t) /\ RLe(t, sorted[i + 1].offset)
FirstBracket(sorted, t, i) ==
  Brackets(sorted, t, i) /\ \A j \in 1..(i - 1) : ~Brackets(sorted, t, j)
BlendOf(left, right, t, result) ==
  IF left.offset = right.offset THEN result = left.color
  ELSE result = interpolateColor(left.color, right.color,
                                 RDiv(RSub(t, left.offset), RSub(right.offset, left.offset)))
LookedUp(sorted, t, result) ==
  IF RLe(t, sorted[1].offset) THEN result = sorted[1].color
  ELSE IF RLe(sorted[Len(sorted)].offset, t) THEN result = sorted[Len(sorted)].color
  ELSE \E i \in 1..(Len(sorted) - 1) :
         FirstBracket(sorted, t, i) /\ BlendOf(sorted[i], sorted[i + 1], t, result)
ColorAtIsBlend ==
  event.name = "getGradientColorAt" =>
    LookedUp(SortByOffset(event.args.stops), event.args.t, event.result)

(* a lookup strictly inside a pair of a list stored out of order *)
ColorAtIsBlendWitness ==
  /\ event.name = "getGradientColorAt"
  /\ ~IsSortedByOffset(event.args.stops)
  /\ \E i \in 1..(Len(event.args.stops) - 1) :
       /\ RLt(SortByOffset(event.args.stops)[i].offset, event.args.t)
       /\ RLt(event.args.t, SortByOffset(event.args.stops)[i + 1].offset)
  /\ \A i \in 1..Len(event.args.stops) : event.result # event.args.stops[i].color

(* C19: interpolateColor blends each 8-bit channel of 3-, 6- and 8-digit   *)
(* hex colours as round(c1 + (c2 - c1) * f), a missing alpha counting as   *)
(* 1; the result has 6 digits when the blended alpha is at least 0.999 and *)
(* 8 digits otherwise; #000000 and #FFFFFF at 0.5 give #808080; f = 0      *)
(* gives the channels of the first colour and f = 1 those of the second.   *)
ChannelOf(hex, n) ==
  IF Len(hex) = 3 THEN 17 * hex[n] ELSE 16 * hex[2 * n - 1] + hex[2 * n]
AlphaOf(hex) == IF Len(hex) = 8 THEN Q(16 * hex[7] + hex[8], 255) ELSE R(1)
Blend(x1, x2, f) == RAdd(x1, RMul(RSub(x2, x1), f))
BlendedChannel(h1, h2, f, n) == RRound(Blend(R(ChannelOf(h1, n)), R(ChannelOf(h2, n)), f))
BlendsChannels(h1, h2, f, out) ==
  /\ \A n \in 1..3 : ChannelOf(out, n) = BlendedChannel(h1, h2, f, n)
  /\ IF RLe(Q(999, 1000), Blend(AlphaOf(h1), AlphaOf(h2), f))
     THEN Len(out) = 6
     ELSE Len(out) = 8 /\ 16 * out[7] + out[8] = RRound(RMul(Blend(AlphaOf(h1), AlphaOf(h2), f), R(255)))
  /\ f = R(0) => \A n \in 1..3 : ChannelOf(out, n) = ChannelOf(h1, n)
  /\ f = R(1) => \A n \in 1..3 : ChannelOf(out, n) = ChannelOf(h2, n)
  /\ (h1 = << 0, 0, 0, 0, 0, 0 >> /\ h2 = << 15, 15, 15, 15, 15, 15 >> /\ f = Q(1, 2))
       => out = << 8, 0, 8, 0, 8, 0 >>
InterpolateBlendsChannels ==
  event.name = "interpolateColor" =>
    BlendsChannels(event.args.color1, event.args.color2, event.args.factor, event.result)

(* a 3-digit colour blended half way with a translucent 8-digit one *)
InterpolateBlendsChannelsWitness ==
  /\ event.name = "interpolateColor"
  /\ Len(event.args.color1) = 3
  /\ Len(event.args.color2) = 8
  /\ event.args.factor = Q(1, 2)
  /\ Len(event.result) = 8

(* C20: on a gradient whose axis has length zero (a linear gradient whose *)
(* start is its end, a radial gradient of radius 0) the overlay's          *)
(* getProjectionT and getGradientT return 0 for every pointer position.    *)
DegenerateAxis(gradient) ==
  \/ /\ gradient.type = "linear"
     /\ IsSet(gradient.start) /\ IsSet(gradient.end)
     /\ gradient.start.v = gradient.end.v
  \/ gradient.type = "radial" /\ gradient.radius = Some(R(0))
DegenerateProjectsToZero ==
  (event.name \in {"getProjectionT", "getGradientT"} /\ DegenerateAxis(event.args.gradient))
    => event.result = R(0)

(* a pointer away from the point that a radius of 0 shrinks the axis to *)
DegenerateProjectsToZeroWitness ==
  /\ event.name = "getProjectionT"
  /\ event.args.gradient.type = "radial"
  /\ DegenerateAxis(event.args.gradient)
  /\ event.args.mx = R(1300)
  /\ event.result = R(0)

(* C24: for every linear or radial gradient and every pointer position,   *)
(* getGradientT returns the overlay's getProjectionT clamped to [0, 1],    *)
(* also for a radial gradient without a radius and a linear gradient with  *)
(* only one of start and end.                                              *)
GradientTIsClampedProjection ==
  event.name = "getGradientT" =>
    event.result = Clamp(R(0), R(1),
                         getProjectionT(event.args.gradient, layers[OverlayLayer],
                                        event.args.mx, event.args.my))

(* C25: a pointer-move of a move-midpoint drag changes nothing but the     *)
(* midpoint of the targeted stop, and the midpoint it stores is a number   *)
(* in [0.1, 0.9], for every gradient type and pointer position, also when  *)
(* the two stops recorded at pointer-down have equal offsets.              *)
MidpointStored(old, new, stopId) ==
  /\ IsSet(new.midpoint)
  /\ new.midpoint.v.d # 0
  /\ RLe(Q(1, 10), new.midpoint.v) /\ RLe(new.midpoint.v, Q(9, 10))
  /\ old.id = stopId
OnlyMidpoint(old, new, stopId) ==
  /\ new = [old EXCEPT !.stops = new.stops]
  /\ Len(new.stops) = Len(old.stops)
  /\ \A i \in 1..Len(old.stops) :
       /\ new.stops[i] = [old.stops[i] EXCEPT !.midpoint = new.stops[i].midpoint]
       /\ new.stops[i] # old.stops[i] => MidpointStored(old.stops[i], new.stops[i], stopId)
       /\ old.stops[i].id = stopId => MidpointStored(old.stops[i], new.stops[i], stopId)
MidpointMoveStep == MoveStep /\ dragRef.state.type = "move-midpoint"
MidpointMoveWritesMidpoint ==
  [][MidpointMoveStep =>
       OnlyMidpoint(layers[OverlayLayer].fill, layers'[OverlayLayer].fill, dragRef.state.stopId)]_vars

(* C27: with a non-empty history.past, undo followed at once by redo gives *)
(* back layers, layerOrder, history.past and history.future exactly as     *)
(* they were; undo on an empty past and redo on an empty future change     *)
(* nothing.                                                                *)
EmptyHistoryNoOps ==
  /\ Len(history.past) = 0 => undo(Store) = Store
  /\ Len(history.future) = 0 => redo(Store) = Store
RoundTrip(s, r) ==
  /\ r.layers = s.layers
  /\ r.layerOrder = s.layerOrder
  /\ r.history = s.history
UndoRedoRestores ==
  /\ Len(history.past) > 0 => RoundTrip(Store, redo(undo(Store)))
  /\ EmptyHistoryNoOps

(* C27 as the code has it: the state comes back as its JSON round trip,   *)
(* that is without the keys that held undefined and with null for NaN.     *)
JsonRoundTrip(s, r) ==
  /\ r.layers = JsonSnapshot(s.layers, s.layerOrder).layers
  /\ r.layerOrder = s.layerOrder
  /\ r.history = s.history
UndoRedoRestoresJson ==
  /\ Len(history.past) > 0 => JsonRoundTrip(Store, redo(undo(Store)))
  /\ EmptyHistoryNoOps

(* a state with a past whose layers are not their own JSON round trip *)
UndoRedoRestoresJsonWitness ==
  /\ Len(history.past) > 0
  /\ layers # JsonSnapshot(layers, layerOrder).layers
  /\ redo(undo(Store)).layers # undo(Store).layers

(* C28: after an undo, every operation that changes layers (undo and redo  *)
(* themselves apart) leaves history.future empty, so that no later redo    *)
(* can overwrite an edit made after the undo.                              *)
ChangesLayers == layers' # layers /\ event'.name \notin {"undo", "redo"}
EditsEmptyFuture == [][ChangesLayers => history'.future = << >>]_vars

(* C29: after a completed layer move drag or layer resize drag, a single   *)
(* undo restores the layer's x, y, width and height to what they were when *)
(* the drag began.                                                         *)
UndoneBox(s) == BoxOf(s.layers[dragBegin.id])
DragUndone ==
  dragBegin.phase = "completed" =>
    (HasLayer(undo(Store), dragBegin.id) /\ UndoneBox(undo(Store)) = dragBegin.box)

(* C30: in every reachable state the keys of layers are the ids in         *)
(* layerOrder, and every entry is a complete layer whose id is its key.    *)
OrderIds == { layerOrder[i] : i \in 1..Len(layerOrder) }
CompleteLayer(id) == DOMAIN layers[id] = LayerKeys /\ layers[id].id = id
LayersMatchOrder ==
  /\ DOMAIN layers = OrderIds
  /\ \A id \in DOMAIN layers : CompleteLayer(id)

(* C26: history.past never holds more than MAX_HISTORY = 50 snapshots, and *)
(* history.past and history.future together never hold more than 50.       *)
HistoryBounded ==
  /\ Len(history.past) <= MAX_HISTORY
  /\ Len(history.past) + Len(history.future) <= MAX_HISTORY

(* a snapshot taken when history.past was already full *)
HistoryBoundedWitness ==
  /\ event.name = "resizePointerDown"
  /\ event.past = MAX_HISTORY
  /\ Len(history.past) = MAX_HISTORY

(* C21: clampOklchToSrgbGamut always returns, after at most maxIter passes *)
(* of its search; the colour it returns has the L and H of its input and a *)
(* chroma between 0 and the input's; an input in gamut is returned as is.  *)
ClampReturned == event.name = "clampOklchToSrgbGamut"
ClampInput == event.args.lch
ClampResultBounded ==
  /\ event.iterations <= event.args.maxIter
  /\ event.result.L = ClampInput.L
  /\ event.result.H = ClampInput.H
  /\ 0 <= event.result.C /\ event.result.C <= ClampInput.C
  /\ isInGamutSrgbEncoded(oklchToSrgbEncoded(ClampInput)) => event.result = ClampInput
ClampWithin ==
  /\ event.name = "clampLoop" => event.i <= event.args.maxIter
  /\ ClampReturned => ClampResultBounded
ClampSettles == []ClampWithin /\ <>ClampReturned

(* a search that ran its twenty passes and found a chroma in between *)
ClampSettlesWitness ==
  /\ ClampReturned
  /\ event.iterations = DefaultMaxIter
  /\ 0 < event.result.C /\ event.result.C < ClampInput.C

(* C22: for every L in [0, 1] and every hue the colour returned by         *)
(* clampOklchToSrgbGamut converts to an sRGB triple that is in gamut, the  *)
(* fallback to chroma 0 included.                                          *)
ClampedInGamut ==
  (ClampReturned /\ event.args.maxIter = DefaultMaxIter) =>
    isInGamutSrgbEncoded(oklchToSrgbEncoded(event.result))

(* C23: for every 6-digit hex colour, srgbEncodedToOklch followed by       *)
(* oklchToHex gives the colour back within 1 on each 8-bit channel.        *)
Near(a, b) == Abs(a - b) <= 1
HexRoundTripClose ==
  event.name = "hexRoundTrip" =>
    /\ Near(event.result.hex.r, event.args.r)
    /\ Near(event.result.hex.g, event.args.g)
    /\ Near(event.result.hex.b, event.args.b)

====
